---- MODULE Spec2Model ----
(***************************************************************************)
(* RVVM hart core: trap and interrupt delivery (riscv32.c) and the hart    *)
(* run loop, for one hart with the IRQ thread and interrupt posters.       *)
(*                                                                         *)
(* Representation.  A uint32_t that the code uses as a bit mask (status,   *)
(* ie, ip, ev_int_mask, edeleg[], ideleg[]) is the set of the positions of *)
(* its set bits: x & (1 << n) is n \in x, x |= m is x \cup m, x &= ~m is   *)
(* x \ m.  Integers here stay below 2^31, which a uint32_t exceeds, so the  *)
(* numeric words (PC, epc[], tvec[], cause[], tval[]) are bit sets too: 32 *)
(* bits wide, with the arithmetic the code does on them (add32, shl32)     *)
(* done bit by bit, modulo 2^32.  Bits(n) is the word of the number n.     *)
(***************************************************************************)
EXTENDS Integers, FiniteSets, Sequences, TLC

\* ------------------------------------------------------------ constants

PRIVILEGE_USER == 0
PRIVILEGE_SUPERVISOR == 1
PRIVILEGE_HYPERVISOR == 2
PRIVILEGE_MACHINE == 3

INTERRUPT_MTIMER == 7

\* trap causes
TRAP_ILL_INSTR == 2
TRAP_ENVCALL_UMODE == 8

\* the width of uint32_t
WordBits == 32

\* handle_ip scans the cause bits from 11 down
IP_TOP == 11

\* status bits of the privileged specification, as riscv32_trap uses them
MSTATUS_MPP == 11
MSTATUS_MPIE == 7
MSTATUS_MIE == 3
MSTATUS_SPP == 8
MSTATUS_SPIE == 5
MSTATUS_SIE == 1

Privs == 0..3
AllBits == 0..(WordBits - 1)

\* ------------------------------------------------------------ bit helpers

\* 2^n
RECURSIVE Pow2(_)
Pow2(n) == IF n = 0 THEN 1 ELSE 2 * Pow2(n - 1)

\* bit k of the number v
BitOf(v, k) == (v \div Pow2(k)) % 2 = 1

\* the word of the number n (n < 2^31)
RECURSIVE Bits(_)
Bits(n) ==
    IF n = 0 THEN {}
    ELSE (IF n % 2 = 1 THEN {0} ELSE {}) \cup {k + 1 : k \in Bits(n \div 2)}

\* a + b modulo 2^32, from bit k with the carry
RECURSIVE add_from(_, _, _, _)
add_from(a, b, k, carry) ==
    IF k = WordBits THEN {}
    ELSE LET sum == (IF k \in a THEN 1 ELSE 0) + (IF k \in b THEN 1 ELSE 0) + carry
         IN  (IF sum % 2 = 1 THEN {k} ELSE {}) \cup add_from(a, b, k + 1, sum \div 2)

\* a + b modulo 2^32; x and y name the values of the arguments, so that each
\* is evaluated once
add32(a, b) == CHOOSE r \in {add_from(x, y, 0, 0) : x \in {a}, y \in {b}} : TRUE

\* (a << n) in 32 bits
shl32(a, n) == {k + n : k \in {j \in a : j + n < WordBits}}

\* the carry out of bit 31 of a + b, whose low 32 bits are r
carry_out(a, b, r) ==
    \/ (WordBits - 1) \in a /\ (WordBits - 1) \in b
    \/ (WordBits - 1) \in (a \cup b) /\ (WordBits - 1) \notin r

\* a + b in a size_t wider than 32 bits: two uint32_t values added without
\* wrapping, bit 32 holding the carry; r names the 32-bit sum, so that it is
\* evaluated once
add_size_t(a, b) ==
    CHOOSE s \in {r \cup (IF carry_out(a, b, r) THEN {WordBits} ELSE {}) :
                     r \in {add32(a, b)}} : TRUE

\* INTERRUPT_MASK, 0x80000000
INTERRUPT_MASK == {31}

\* first usable physical address, riscv32_init_phys_mem(&vm->mem, 0x80000000, ..)
MEM_BEGIN == {31}

\* bit_cut(val, pos, bits): the field as a number
RECURSIVE bit_cut(_, _, _)
bit_cut(val, pos, bits) ==
    IF bits = 0 THEN 0
    ELSE (IF pos \in val THEN 1 ELSE 0) + 2 * bit_cut(val, pos + 1, bits - 1)

\* bit_replace(val, pos, bits, rep): the field replaced by the low bits of rep
bit_replace(val, pos, bits, rep) ==
    (val \ (pos..(pos + bits - 1)))
        \cup {pos + k : k \in {j \in 0..(bits - 1) : BitOf(rep, j)}}

\* ------------------------------------------------------------ bounds

\* events the environment raises in one behaviour: guest traps and WFIs,
\* riscv32_interrupt calls and IRQ-thread ticks
MaxEvents == 2

\* causes the guest raises with riscv32_trap
TrapCauses == {TRAP_ILL_INSTR, TRAP_ENVCALL_UMODE}
\* tval values passed to riscv32_trap
TrapTvals == {Bits(5)}
\* causes devices post with riscv32_interrupt
PostCauses == {0, 8, 9, 10}
\* interrupts the firmware delegates with mideleg / sideleg
DelegInts == {8, 9, 10}
\* interrupt enables the firmware writes to mie: all posted causes, or only
\* the machine timer and the supervisor external interrupt
IeAll == {0, 7, 8, 9, 10}
IeSome == {7, 9}
\* values the firmware writes to the xtvec registers: direct and vectored
TvecDirect == Bits(256)
TvecVectored == Bits(513)
\* what the firmware writes to mstatus: the global enables clear or set,
\* MPP user or supervisor
StatusIeSet == {0, MSTATUS_SIE, MSTATUS_MIE}
StatusMppS == {MSTATUS_MPP}
\* the CSR set-ups the firmware chooses from: which levels delegate, the
\* interrupt enables, the trap vectors, mstatus
GuestConfigs ==
    { [mdeleg |-> FALSE, sdeleg |-> FALSE, ie |-> IeAll, tvec |-> TvecDirect,
       status |-> StatusIeSet],
      [mdeleg |-> TRUE, sdeleg |-> TRUE, ie |-> IeAll, tvec |-> TvecVectored,
       status |-> StatusIeSet],
      [mdeleg |-> TRUE, sdeleg |-> FALSE, ie |-> IeAll, tvec |-> TvecVectored,
       status |-> StatusMppS],
      [mdeleg |-> FALSE, sdeleg |-> TRUE, ie |-> IeSome, tvec |-> TvecDirect,
       status |-> StatusMppS],
      [mdeleg |-> FALSE, sdeleg |-> FALSE, ie |-> IeSome, tvec |-> TvecVectored,
       status |-> StatusIeSet \cup StatusMppS] }

\* the hart and its run loop: vm is the riscv32_vm_state_t, hart_at the place
\* of the hart thread in riscv32_run_impl ("top" of the loop, "run" inside
\* riscv32_run_till_event or just back from it, "fold" and "clear" inside the
\* ev_int branch), timer_pending what rvtimer_pending
\* returns, events the count of environment events so far; cleared records
\* the ip bits the guest cleared that nobody has posted since
VARIABLES vm, hart_at, timer_pending, events, cleared

\* the threads that post interrupts, statement by statement
VARIABLES poster

\* the registry of harts: the globals of riscv32.c, the harts allocated by
\* riscv32_create_vm, the thread that calls riscv32_create_vm and
\* riscv32_destroy_vm (main), the IRQ thread (irqt), and the number of
\* threads started on global_irq_handler
VARIABLES global_lock, global_vm_list, global_vm_count, global_init,
          harts, main, irqt, irq_starts

\* the physical-memory image devices_init allocates, which every hart's mem
\* points into: "none" before it exists, "live", "freed" once released
VARIABLES phys_mem

\* the hart's LR/SC reservation and the value the last SC.W returned
VARIABLES reservation, sc_ret

\* the ATA controller: the device (struct ata_dev), whether ata_init has run
\* (ata_at), the last MMIO access with what its handler returned (ata_last),
\* what the guest has asked of the device (ata_hist), and the host's FILEs of
\* the two images, each with its address, its bytes and its position
\* (ata_files)
VARIABLES ata, ata_at, ata_last, ata_hist, ata_files

hartvars == <<vm, hart_at, timer_pending, events, cleared>>

lrvars == <<reservation, sc_ret>>

atavars == <<ata, ata_at, ata_last, ata_hist, ata_files>>

regvars == <<global_lock, global_vm_list, global_vm_count, global_init,
             harts, main, irqt, irq_starts, phys_mem>>

vars == <<hartvars, poster, regvars, lrvars, atavars>>

\* a step of the hart model leaves the rest alone
HartOnly == UNCHANGED <<poster, regvars, lrvars, atavars>>

\* ------------------------------------------------------------ trap delivery

\* riscv32_trap, the delegation loop:
\*   for (priv = MACHINE; priv > vm->priv_mode; --priv)
\*       if ((edeleg[priv] & (1 << cause)) == 0) break;
RECURSIVE trap_priv_nofloor(_, _, _)
trap_priv_nofloor(v, priv, c) ==
    IF priv > PRIVILEGE_USER /\ c \in v.edeleg[priv]
    THEN trap_priv_nofloor(v, priv - 1, c)
    ELSE priv

RECURSIVE trap_priv(_, _, _)
trap_priv(v, priv, c) ==
    IF priv > v.priv_mode /\ c \in v.edeleg[priv]
    THEN trap_priv(v, priv - 1, c)
    ELSE priv

\* riscv32_trap: save the privilege to xPP, xIE to xPIE, clear xIE
trap_status(v, priv) ==
    IF priv = PRIVILEGE_MACHINE THEN
        LET s1 == bit_replace(v.status, MSTATUS_MPP, 2, v.priv_mode)
            s2 == bit_replace(s1, MSTATUS_MPIE, 1, bit_cut(s1, MSTATUS_MIE, 1))
        IN  s2 \ {MSTATUS_MIE}
    ELSE IF priv = PRIVILEGE_SUPERVISOR THEN
        LET s1 == bit_replace(v.status, MSTATUS_SPP, 1, v.priv_mode)
            s2 == bit_replace(s1, MSTATUS_SPIE, 1, bit_cut(s1, MSTATUS_SIE, 1))
        IN  s2 \ {MSTATUS_SIE}
    ELSE v.status

\* riscv32_trap(vm, cause, tval)
riscv32_trap(v, c, t) ==
    LET priv == trap_priv(v, PRIVILEGE_MACHINE, c)
    IN  [v EXCEPT !.epc[priv] = v.pc,
                  !.cause[priv] = Bits(c),
                  !.tval[priv] = t,
                  !.status = trap_status(v, priv),
                  !.priv_mode = priv,
                  !.ev_trap = TRUE,
                  !.wait_event = 0]

\* ------------------------------------------------------------ interrupt delivery

\* riscv32_perform_interrupt, the delegation loop:
\*   for (priv = MACHINE; priv > (cause & 0x3); --priv)
\*       if ((ideleg[priv] & (1 << cause)) == 0) break;
RECURSIVE interrupt_priv(_, _, _)
interrupt_priv(v, priv, c) ==
    IF priv > (c % 4) /\ c \in v.ideleg[priv]
    THEN interrupt_priv(v, priv - 1, c)
    ELSE priv

\* a delivery that saves the privilege and xIE but leaves xIE set
interrupt_status_keep_ie(v, priv) ==
    IF priv = PRIVILEGE_MACHINE THEN
        LET s1 == bit_replace(v.status, MSTATUS_MPP, 2, v.priv_mode)
        IN  bit_replace(s1, MSTATUS_MPIE, 1, bit_cut(s1, MSTATUS_MIE, 1))
    ELSE IF priv = PRIVILEGE_SUPERVISOR THEN
        LET s1 == bit_replace(v.status, MSTATUS_SPP, 1, v.priv_mode)
        IN  bit_replace(s1, MSTATUS_SPIE, 1, bit_cut(s1, MSTATUS_SIE, 1))
    ELSE v.status

\* riscv32_perform_interrupt: save the privilege to xPP, xIE to xPIE, clear xIE
interrupt_status(v, priv) ==
    IF priv = PRIVILEGE_MACHINE THEN
        LET s1 == bit_replace(v.status, MSTATUS_MPP, 2, v.priv_mode)
            s2 == bit_replace(s1, MSTATUS_MPIE, 1, bit_cut(s1, MSTATUS_MIE, 1))
        IN  s2 \ {MSTATUS_MIE}
    ELSE IF priv = PRIVILEGE_SUPERVISOR THEN
        LET s1 == bit_replace(v.status, MSTATUS_SPP, 1, v.priv_mode)
            s2 == bit_replace(s1, MSTATUS_SPIE, 1, bit_cut(s1, MSTATUS_SIE, 1))
        IN  s2 \ {MSTATUS_SIE}
    ELSE v.status

\* riscv32_perform_interrupt(vm, cause)
riscv32_perform_interrupt(v, c) ==
    LET priv == interrupt_priv(v, PRIVILEGE_MACHINE, c)
    IN  [v EXCEPT !.epc[priv] = v.pc,
                  !.cause[priv] = Bits(c) \cup INTERRUPT_MASK,
                  !.tval[priv] = {},
                  !.status = interrupt_status(v, priv),
                  !.priv_mode = priv,
                  !.wait_event = 0]

\* riscv32_handle_ip: whether privilege lets interrupt i through
iallow(v, i, wfi) ==
    LET priv == i % 4
    IN  \/ priv > v.priv_mode
        \/ priv = v.priv_mode /\ (priv \in v.status \/ wfi)

\* riscv32_handle_ip, the scan "for (i = 11; i > 0; --i)": the cause that is
\* executed, or 0 when the loop ends without one (bit 0 is never examined)
RECURSIVE handle_ip_scan(_, _, _)
handle_ip_scan(v, i, wfi) ==
    IF i = 0 THEN 0
    ELSE IF i \in v.ip /\ i \in v.ie /\ iallow(v, i, wfi) THEN i
    ELSE handle_ip_scan(v, i - 1, wfi)

\* riscv32_handle_ip without the "WFI should set epc to pc+4" write
riscv32_handle_ip_nopc4(v, wfi) ==
    LET i == IF v.ip = {} THEN 0 ELSE handle_ip_scan(v, IP_TOP, wfi)
        v1 == IF wfi THEN [v EXCEPT !.ev_trap = TRUE] ELSE v
    IN  IF i = 0 THEN [vm |-> v, ret |-> FALSE]
        ELSE [vm |-> riscv32_perform_interrupt(v1, i), ret |-> TRUE]

\* riscv32_handle_ip(vm, wfi): the hart afterwards and the return value
riscv32_handle_ip(v, wfi) ==
    LET i == IF v.ip = {} THEN 0 ELSE handle_ip_scan(v, IP_TOP, wfi)
        v1 == IF wfi THEN [v EXCEPT !.pc = add32(v.pc, Bits(4)), !.ev_trap = TRUE]
              ELSE v
    IN  IF i = 0 THEN [vm |-> v, ret |-> FALSE]
        ELSE [vm |-> riscv32_perform_interrupt(v1, i), ret |-> TRUE]

\* riscv32i_write_register_u(vm, REGISTER_PC, data): pc is the program
\* counter as it is read, in 32 bits ("(uint32_t) vm->registers[REGISTER_PC]",
\* riscv32i_read_register_u into the uint32_t epc), so it takes the low 32
\* bits of data whatever the width of the register that holds it
riscv32i_write_register_u(v, data) == [v EXCEPT !.pc = data \cap AllBits]

\* riscv32_trap_jump(vm): "size_t pc = tvec & ~3", "pc += cause << 2" with the
\* shift done in uint32_t and the sum in size_t
riscv32_trap_jump(v) ==
    LET t == v.tvec[v.priv_mode]
        base == t \ {0, 1}
        off == IF 0 \in t THEN shl32(v.cause[v.priv_mode], 2) ELSE {}
    IN  riscv32i_write_register_u(v, add_size_t(base, off))

\* the fold without the rvtimer_pending check
fold_ip_nocheck(v, pending) == v.ip \cup v.ev_int_mask

\* riscv32_run_impl, "vm->csr.ip |= vm->ev_int_mask" and the timer check
fold_ip(v, pending) ==
    LET ip1 == v.ip \cup v.ev_int_mask
    IN  IF INTERRUPT_MTIMER \in ip1 /\ ~pending
        THEN ip1 \ {INTERRUPT_MTIMER}
        ELSE ip1

\* ------------------------------------------------------------ the registry

\* MAX_VMS
MAX_VMS == 256

\* the null pointer; harts are named by the references 1, 2, ...
NULL == 0

\* references calloc can hand out
Refs == {1, 2, 3}

\* slots of global_vm_list that the calls use; the others stay NULL
Slots == {0, 1, 2}

\* hartid arguments of riscv32_create_vm: two slots and the first one refused
HartIds == {0, 1, 2, MAX_VMS}

\* calls of riscv32_create_vm and riscv32_destroy_vm in one behaviour
MaxCalls == 4

\* memory of a hart that is not allocated
FreeHart ==
    [state |-> "free", hartid |-> 0, priv_mode |-> 0, mmu_virtual |-> FALSE,
     pc |-> {}, mem_begin |-> {}, devices |-> FALSE, clint |-> {},
     ev_trap |-> FALSE, ev_int |-> FALSE, ev_int_mask |-> {}, wait_event |-> 0]

\* calloc(sizeof(riscv32_vm_state_t), 1)
calloc_hart == [FreeHart EXCEPT !.state = "new"]

\* the thread calling the API is between calls
MainIdle == [at |-> "idle", op |-> "none", h |-> 0, v |-> NULL, ret |-> NULL, calls |-> 0]

\* no reservation is held and no SC.W has executed
LrScInit == reservation = FALSE /\ sc_ret = 0

SECTOR_SIZE == 512

\* a string of bytes, kept as runs of equal bytes: n bytes of value b
Run(n, b) == IF n <= 0 THEN <<>> ELSE <<[n |-> n, b |-> b]>>

\* x followed by y
Cat(x, y) ==
    IF x = <<>> THEN y
    ELSE IF y = <<>> THEN x
    ELSE IF x[Len(x)].b = y[1].b
    THEN SubSeq(x, 1, Len(x) - 1) \o <<[n |-> x[Len(x)].n + y[1].n, b |-> y[1].b]>>
             \o Tail(y)
    ELSE x \o y

\* the number of bytes of the runs lo .. hi of x
RECURSIVE Sum(_, _, _)
Sum(x, lo, hi) ==
    IF lo > hi THEN 0
    ELSE IF lo = hi THEN x[lo].n
    ELSE Sum(x, lo, (lo + hi) \div 2) + Sum(x, (lo + hi) \div 2 + 1, hi)

\* the number of bytes of x
NBytes(x) == Sum(x, 1, Len(x))

\* the most runs of x, among the first lo - 1 .. hi, that hold at most k
\* bytes together; the first lo - 1 hold before
RECURSIVE Whole(_, _, _, _, _)
Whole(x, k, lo, hi, before) ==
    IF lo > hi THEN lo - 1
    ELSE LET mid == (lo + hi) \div 2
             s == before + Sum(x, lo, mid)
         IN  IF s <= k THEN Whole(x, k, mid + 1, hi, s) ELSE Whole(x, k, lo, mid - 1, before)

\* the first k bytes of x
Take(x, k) ==
    LET j == Whole(x, k, 1, Len(x), 0)
        used == Sum(x, 1, j)
    IN  IF k <= 0 THEN <<>>
        ELSE IF j = Len(x) THEN x
        ELSE IF used = k THEN SubSeq(x, 1, j)
        ELSE SubSeq(x, 1, j) \o <<[n |-> k - used, b |-> x[j + 1].b]>>

\* x without its first k bytes
Drop(x, k) ==
    LET j == Whole(x, k, 1, Len(x), 0)
        used == Sum(x, 1, j)
    IN  IF k <= 0 THEN x
        ELSE IF j = Len(x) THEN <<>>
        ELSE IF used = k THEN SubSeq(x, j + 1, Len(x))
        ELSE <<[n |-> x[j + 1].n - (k - used), b |-> x[j + 1].b]>> \o SubSeq(x, j + 2, Len(x))

\* memcpy(x + pos, y, NBytes(y)) within x
Splice(x, pos, y) == Cat(Cat(Take(x, pos), y), Drop(x, pos + NBytes(y)))

\* the bytes of the runs lo .. hi of x one by one
RECURSIVE FlatRuns(_, _, _)
FlatRuns(x, lo, hi) ==
    IF lo > hi THEN <<>>
    ELSE IF lo = hi THEN [i \in 1..x[lo].n |-> x[lo].b]
    ELSE FlatRuns(x, lo, (lo + hi) \div 2) \o FlatRuns(x, (lo + hi) \div 2 + 1, hi)

\* the bytes of x one by one
Flat(x) == FlatRuns(x, 1, Len(x))

\* the eight bytes of a size_t holding n (n < 2^31), low byte first
size_t_bytes(n) ==
    [i \in 1..8 |-> IF i <= 4 THEN (n \div Pow2(8 * (i - 1))) % 256 ELSE 0]

\* struct ata_dev on an LP64 host: a drive is fp (8 bytes), size (8), seven
\* 16-bit registers, status and hob_shift (a byte each) and buf; curdrive
\* follows the two drives, and the struct ends at the next multiple of 8
HeaderBytes == 8 + 8 + 7 * 2 + 1 + 1
DriveBytes == HeaderBytes + SECTOR_SIZE
CurdriveAt == 2 * DriveBytes
StructBytes == CurdriveAt + 8

\* the bytes of a NULL pointer
NullPtr == [i \in 1..8 |-> 0]

\* calloc(1, sizeof(struct ata_dev)): one drive of the device
calloc_drive ==
    [fp |-> NullPtr, size |-> size_t_bytes(0), bytes_to_rw |-> 0, sectcount |-> 0,
     lbal |-> 0, lbam |-> 0, lbah |-> 0, drive |-> 0,
     error |-> {}, status |-> {}, hob_shift |-> 0, buf |-> Run(SECTOR_SIZE, 0)]

\* calloc(1, sizeof(struct ata_dev))
calloc_ata ==
    [drive |-> [d \in {0, 1} |-> calloc_drive], curdrive |-> 0,
     pad |-> Run(StructBytes - CurdriveAt - 1, 0)]

\* a FILE at the address addr, open on an image of the given length, and no
\* FILE (a NULL pointer)
File(bytes, addr) == [given |-> TRUE, bytes |-> bytes, addr |-> addr]
NoImage == [given |-> FALSE, bytes |-> 0, addr |-> NullPtr]

\* the host's files before ata_init is given them
NoFile == [open |-> FALSE, addr |-> NullPtr, bytes |-> <<>>, pos |-> [sector |-> 0, byte |-> 0]]

\* no MMIO access has been made
NoAccess ==
    [acc |-> [h |-> "none", offset |-> 0, size |-> 0, write |-> FALSE, val |-> 0,
              io |-> "ok", part |-> 0],
     ret |-> TRUE, rd |-> <<>>, host |-> "none", n |-> 0, setup |-> 0]

\* the guest has issued no command: the last command; the sector count
\* written for it (req), known when NSECT was written once since the drive
\* was last selected, reset or commanded (req_writes = 1); the same for the
\* next command (nsect, nsect_writes); the bytes DATA has delivered since the
\* command; whether a host I/O call failed; whether nothing was written to
\* the device since the command (clean); the commands issued; and the images
\* ata_init was given
NoHist ==
    [cmd |-> 0, req |-> 0, req_writes |-> 0, nsect |-> 0, nsect_writes |-> 0,
     xfer |-> 0, io_failed |-> FALSE, clean |-> FALSE, cmds |-> 0,
     master |-> NoImage, slave |-> NoImage]

\* the ATA controller before ata_init
AtaIdle ==
    /\ ata = calloc_ata
    /\ ata_at = "uninit"
    /\ ata_last = NoAccess
    /\ ata_hist = NoHist
    /\ ata_files = [master |-> NoFile, slave |-> NoFile]

\* static storage before the first riscv32_create_vm
RegistryInit ==
    /\ global_lock = 0
    /\ global_vm_list = [i \in Slots |-> NULL]
    /\ global_vm_count = 0
    /\ global_init = FALSE
    /\ harts = [r \in Refs |-> FreeHart]
    /\ main = MainIdle
    /\ irqt = "none"
    /\ irq_starts = 0
    /\ phys_mem = "none"

\* a step of the registry model leaves the hart model alone
RegOnly == UNCHANGED <<hartvars, poster, lrvars, atavars>>

\* and, but for devices_init and riscv32_destroy_phys_mem, the memory image
RegKeep == RegOnly /\ UNCHANGED phys_mem

\* a hartid check that lets MAX_VMS itself through
hartid_ok_incl(h) == h <= MAX_VMS

\* riscv32_create_vm and register_vm: "if (hartid >= MAX_VMS) return ..."
hartid_ok(h) == h < MAX_VMS

\* a creation that always takes the first-call branch
first_create_always(g) == TRUE

\* riscv32_create_vm: "if (!global_init)"
first_create(g) == ~g

\* a spin_lock that returns whatever the flag was
spin_lock_any(flag) == TRUE

\* spin_lock: atomic_exchange(&lock->flag, 1) returned 0, the lock is taken
spin_lock_ok(flag) == flag = 0

\* devices_init: riscv32_init_phys_mem(&vm->mem, 0x80000000, 0x10000) succeeds
riscv32_init_phys_mem(m) == "live"

\* the hart's mem points into the image devices_init allocated
SharesImage(hrec) == hrec.state # "free" /\ hrec.mem_begin = MEM_BEGIN

\* riscv32_destroy_phys_mem(&vm->mem): the buffer mem points to is released;
\* riscv32_phys_mem_t holds data, begin and size and counts no users
riscv32_destroy_phys_mem(m, hrec) == IF SharesImage(hrec) THEN "freed" ELSE m

\* the process has not died of a null dereference
Alive == main.at # "crashed"

\* the reference calloc returns
FreeRefs == {r \in Refs : harts[r].state = "free"}
NewRef == CHOOSE r \in FreeRefs : \A q \in FreeRefs : r <= q

\* a creation that leaves priv_mode as calloc zeroed it
configured_hart_nomode(hrec, h) ==
    [hrec EXCEPT !.clint = @ \cup {h},
                 !.mmu_virtual = FALSE,
                 !.pc = hrec.mem_begin]

\* riscv32_create_vm after the global part: the hart's own CLINT region, the
\* timer, Machine mode, paging off, PC at the memory base
configured_hart(hrec, h) ==
    [hrec EXCEPT !.clint = @ \cup {h},
                 !.mmu_virtual = FALSE,
                 !.priv_mode = PRIVILEGE_MACHINE,
                 !.pc = hrec.mem_begin]

\* the main thread's record as a call begins and as it returns
Calling(op, h, v, at) ==
    [at |-> at, op |-> op, h |-> h, v |-> v, ret |-> NULL, calls |-> main.calls + 1]
Returned(ret) == [main EXCEPT !.at = "idle", !.ret = ret]

\* riscv32_create_vm(hartid) up to its first spin_lock: the hartid check,
\* calloc, and on the first call the global initialisation, devices_init and
\* the start of the IRQ thread
create_call(h, alloc_ok, dev_ok) ==
    /\ Alive
    /\ main.at = "idle"
    /\ main.calls < MaxCalls
    /\ IF ~hartid_ok(h) \/ ~alloc_ok \/ FreeRefs = {}
       THEN /\ main' = Calling("create", h, NULL, "idle")
            /\ UNCHANGED <<global_lock, global_vm_list, global_vm_count,
                           global_init, harts, irqt, irq_starts>>
       ELSE IF first_create(global_init)
       THEN /\ global_lock' = 0
            /\ IF ~dev_ok
               THEN /\ main' = Calling("create", h, NULL, "idle")
                    /\ UNCHANGED <<global_vm_list, global_vm_count, global_init,
                                   harts, irqt, irq_starts>>
               ELSE /\ harts' = [harts EXCEPT ![NewRef] =
                                    configured_hart([calloc_hart EXCEPT
                                                        !.mem_begin = MEM_BEGIN,
                                                        !.devices = TRUE], h)]
                    /\ irqt' = "sleep"
                    /\ irq_starts' = irq_starts + 1
                    /\ global_init' = TRUE
                    /\ main' = Calling("create", h, NewRef, "reg_lock")
                    /\ UNCHANGED <<global_vm_list, global_vm_count>>
       ELSE /\ harts' = [harts EXCEPT ![NewRef] = calloc_hart]
            /\ main' = Calling("create", h, NewRef, "fan_lock")
            /\ UNCHANGED <<global_lock, global_vm_list, global_vm_count,
                           global_init, irqt, irq_starts>>
    /\ phys_mem' = IF hartid_ok(h) /\ alloc_ok /\ FreeRefs # {}
                        /\ first_create(global_init) /\ dev_ok
                   THEN riscv32_init_phys_mem(phys_mem)
                   ELSE phys_mem
    /\ RegOnly

\* spin_lock(&global_lock) in riscv32_create_vm, register_vm, deregister_vm
main_lock ==
    /\ Alive
    /\ main.at \in {"fan_lock", "reg_lock", "dereg_lock"}
    /\ spin_lock_ok(global_lock)
    /\ global_lock' = 1
    /\ main' = [main EXCEPT !.at = CASE main.at = "fan_lock" -> "fan_cs"
                                     [] main.at = "reg_lock" -> "reg_cs"
                                     [] OTHER -> "dereg_cs"]
    /\ UNCHANGED <<global_vm_list, global_vm_count, global_init, harts, irqt, irq_starts>>
    /\ RegKeep

\* the harts the registry holds
Registered == {global_vm_list[i] : i \in Slots} \ {NULL}

\* riscv32_create_vm: the first non-NULL entry of global_vm_list
parent_vm ==
    IF Registered = {} THEN NULL
    ELSE global_vm_list[CHOOSE i \in Slots :
                            /\ global_vm_list[i] # NULL
                            /\ \A j \in Slots : global_vm_list[j] # NULL => i <= j]

\* what "vm->mem = parent_vm->mem; vm->mmio = parent_vm->mmio" can do when
\* parent_vm is NULL: the process dies, or whatever lies at that address is
\* copied
NullRead ==
    [crash : BOOLEAN, mem_begin : {Bits(0), MEM_BEGIN}, devices : BOOLEAN,
     clint : {{}, {0}}]

\* a later creation that copies from the parent and adds its CLINT to no hart
create_fan_out_nofan(ub) ==
    /\ main.at = "fan_cs"
    /\ parent_vm # NULL
    /\ harts' = [harts EXCEPT ![main.v].mem_begin = harts[parent_vm].mem_begin,
                              ![main.v].devices = harts[parent_vm].devices,
                              ![main.v].clint = harts[parent_vm].clint]
    /\ main' = [main EXCEPT !.at = "fan_unlock"]
    /\ UNCHANGED <<global_lock, global_vm_list, global_vm_count, global_init, irqt, irq_starts>>
    /\ RegKeep

\* riscv32_create_vm, a later call, under the lock: copy mem and mmio from the
\* parent, add this hart's CLINT to every registered hart; with no hart
\* registered parent_vm is NULL and the copy dereferences it
create_fan_out(ub) ==
    /\ main.at = "fan_cs"
    /\ IF parent_vm = NULL
       THEN IF ub.crash
            THEN /\ main' = [main EXCEPT !.at = "crashed"]
                 /\ UNCHANGED harts
            ELSE /\ harts' = [harts EXCEPT ![main.v].mem_begin = ub.mem_begin,
                                           ![main.v].devices = ub.devices,
                                           ![main.v].clint = ub.clint]
                 /\ main' = [main EXCEPT !.at = "fan_unlock"]
       ELSE /\ harts' = [r \in Refs |->
                           IF r = main.v
                           THEN [harts[r] EXCEPT !.mem_begin = harts[parent_vm].mem_begin,
                                                 !.devices = harts[parent_vm].devices,
                                                 !.clint = harts[parent_vm].clint]
                           ELSE IF r \in Registered
                           THEN [harts[r] EXCEPT !.clint = @ \cup {main.h}]
                           ELSE harts[r]]
            /\ main' = [main EXCEPT !.at = "fan_unlock"]
    /\ UNCHANGED <<global_lock, global_vm_list, global_vm_count, global_init, irqt, irq_starts>>
    /\ RegKeep

\* spin_unlock, then the rest of riscv32_create_vm up to register_vm
create_fan_unlock ==
    /\ main.at = "fan_unlock"
    /\ global_lock' = 0
    /\ harts' = [harts EXCEPT ![main.v] = configured_hart(@, main.h)]
    /\ main' = [main EXCEPT !.at = "reg_lock"]
    /\ UNCHANGED <<global_vm_list, global_vm_count, global_init, irqt, irq_starts>>
    /\ RegKeep

\* register_vm under the lock
register_vm ==
    /\ main.at = "reg_cs"
    /\ global_vm_list' = [i \in Slots |-> IF i = main.h THEN main.v ELSE global_vm_list[i]]
    /\ harts' = [harts EXCEPT ![main.v].hartid = main.h, ![main.v].state = "reg"]
    /\ global_vm_count' = global_vm_count + 1
    /\ main' = [main EXCEPT !.at = "reg_unlock"]
    /\ UNCHANGED <<global_lock, global_init, irqt, irq_starts>>
    /\ RegKeep

\* register_vm: spin_unlock
register_unlock ==
    /\ main.at = "reg_unlock"
    /\ global_lock' = 0
    /\ main' = [main EXCEPT !.at = "reg_ret"]
    /\ UNCHANGED <<global_vm_list, global_vm_count, global_init, harts, irqt, irq_starts>>
    /\ RegKeep

\* register_vm returns true, riscv32_create_vm returns the hart
create_return ==
    /\ Alive
    /\ main.at = "reg_ret"
    /\ main' = Returned(main.v)
    /\ UNCHANGED <<global_lock, global_vm_list, global_vm_count, global_init,
                   harts, irqt, irq_starts>>
    /\ RegKeep

\* riscv32_destroy_vm(vm) on a hart riscv32_create_vm returned
destroy_call(v) ==
    /\ Alive
    /\ main.at = "idle"
    /\ main.calls < MaxCalls
    /\ harts[v].state = "reg"
    /\ main' = Calling("destroy", harts[v].hartid, v, "dereg_lock")
    /\ UNCHANGED <<global_lock, global_vm_list, global_vm_count, global_init,
                   harts, irqt, irq_starts>>
    /\ RegKeep

\* deregister_vm under the lock
deregister_vm ==
    /\ main.at = "dereg_cs"
    /\ global_vm_list' = [i \in Slots |->
                             IF i = harts[main.v].hartid THEN NULL ELSE global_vm_list[i]]
    /\ irqt' = IF global_vm_count = 0 THEN "cancelled" ELSE irqt
    /\ main' = [main EXCEPT !.at = "dereg_unlock"]
    /\ UNCHANGED <<global_lock, global_vm_count, global_init, harts, irq_starts>>
    /\ RegKeep

\* deregister_vm: spin_unlock
deregister_unlock ==
    /\ main.at = "dereg_unlock"
    /\ global_lock' = 0
    /\ main' = [main EXCEPT !.at = "dereg_ret"]
    /\ UNCHANGED <<global_vm_list, global_vm_count, global_init, harts, irqt, irq_starts>>
    /\ RegKeep

\* riscv32_destroy_vm after deregister_vm: the devices, the memory, free(vm)
destroy_free ==
    /\ Alive
    /\ main.at = "dereg_ret"
    /\ harts' = [harts EXCEPT ![main.v] = FreeHart]
    /\ main' = Returned(NULL)
    /\ UNCHANGED <<global_lock, global_vm_list, global_vm_count, global_init,
                   irqt, irq_starts>>
    /\ phys_mem' = riscv32_destroy_phys_mem(phys_mem, harts[main.v])
    /\ RegOnly

\* riscv32_get_hart_by_id(hartid)
riscv32_get_hart_by_id(h) ==
    IF h >= MAX_VMS THEN NULL
    ELSE IF h \in Slots THEN global_vm_list[h]
    ELSE NULL

\* the main thread calls riscv32_get_hart_by_id(h) between two other calls;
\* the function takes no lock
get_hart_call(h) ==
    /\ Alive
    /\ main.at = "idle"
    /\ main' = [main EXCEPT !.op = "get", !.h = h, !.v = NULL,
                            !.ret = riscv32_get_hart_by_id(h)]
    /\ UNCHANGED <<global_lock, global_vm_list, global_vm_count, global_init,
                   harts, irqt, irq_starts>>
    /\ RegKeep

\* ------------------------------------------------------------ the hart

\* a poster (a caller of riscv32_interrupt, the IRQ thread in its loop body)
\* that is not posting: which of its accesses it has made (ld, st: the load and
\* the store of "ev_int_mask |= ..."; fl: the store of ev_int), the mask it
\* loaded, the cause it posts
PosterRest ==
    [at |-> "idle", ld |-> FALSE, st |-> FALSE, fl |-> FALSE, tmp |-> {}, c |-> 0]

\* no poster is inside riscv32_interrupt or the IRQ thread's loop body
PosterIdle == [t \in {"irq", "dev"} |-> PosterRest]

\* riscv32_create_vm: calloc, Machine mode, PC at the memory base, the
\* hypervisor delegation registers all ones
created_vm ==
    [priv_mode |-> PRIVILEGE_MACHINE,
     pc |-> MEM_BEGIN,
     status |-> {},
     edeleg |-> [p \in Privs |-> IF p = PRIVILEGE_HYPERVISOR THEN AllBits ELSE {}],
     ideleg |-> [p \in Privs |-> IF p = PRIVILEGE_HYPERVISOR THEN AllBits ELSE {}],
     ie |-> {},
     ip |-> {},
     tvec |-> [p \in Privs |-> {}],
     epc |-> [p \in Privs |-> {}],
     cause |-> [p \in Privs |-> {}],
     tval |-> [p \in Privs |-> {}],
     ev_trap |-> FALSE,
     ev_int |-> FALSE,
     ev_int_mask |-> {},
     wait_event |-> 0]

\* the hart after riscv32_create_vm, about to be run
Init ==
    /\ vm = created_vm
    /\ hart_at = "top"
    /\ timer_pending \in BOOLEAN
    /\ events = 0
    /\ cleared = {}
    /\ poster = PosterIdle
    /\ RegistryInit
    /\ LrScInit
    /\ AtaIdle

\* riscv32_run_impl, top of the loop: store 1 to wait_event, enter
\* riscv32_run_till_event
run_top ==
    /\ hart_at = "top"
    /\ vm' = [vm EXCEPT !.wait_event = 1]
    /\ hart_at' = "run"
    /\ UNCHANGED <<timer_pending, events, cleared>>
    /\ HartOnly

\* what a statement of the dispatch gives: the hart and the loop's next place
Step(v, at) == [vm |-> v, at |-> at]

\* "vm->ev_int = false; if (riscv32_handle_ip(vm, false)) riscv32_trap_jump(vm)"
run_clear(v) ==
    LET r == riscv32_handle_ip([v EXCEPT !.ev_int = FALSE], FALSE)
    IN  IF r.ret THEN riscv32_trap_jump(r.vm) ELSE r.vm

\* the dispatch with the two branches in the other order
run_event_int_first(v, at, pending) ==
    CASE at = "run" ->
            IF v.ev_int THEN Step(v, "fold")
            ELSE IF v.ev_trap THEN Step(riscv32_trap_jump([v EXCEPT !.ev_trap = FALSE]), "top")
            ELSE Step(v, "top")
      [] at = "fold" -> Step([v EXCEPT !.ip = fold_ip(v, pending)], "clear")
      [] OTHER -> Step(run_clear(v), "top")

\* the dispatch with a trap branch that leaves ev_trap set
run_event_keep_trap(v, at, pending) ==
    CASE at = "run" ->
            IF v.ev_trap THEN Step(riscv32_trap_jump(v), "top")
            ELSE IF v.ev_int THEN Step(v, "fold")
            ELSE Step(v, "top")
      [] at = "fold" -> Step([v EXCEPT !.ip = fold_ip(v, pending)], "clear")
      [] OTHER -> Step(run_clear(v), "top")

\* riscv32_run_impl, after riscv32_run_till_event returned, one statement
\* that touches a field other threads write at a time: at "run" the tests
\* "if (vm->ev_trap) ... else if (vm->ev_int)", with the whole trap branch
\* (ev_trap is the hart's own); at "fold" "vm->csr.ip |= vm->ev_int_mask" and
\* the timer check; at "clear" "vm->ev_int = false" and riscv32_handle_ip
run_event(v, at, pending) ==
    CASE at = "run" ->
            IF v.ev_trap THEN Step(riscv32_trap_jump([v EXCEPT !.ev_trap = FALSE]), "top")
            ELSE IF v.ev_int THEN Step(v, "fold")
            ELSE Step(v, "top")
      [] at = "fold" -> Step([v EXCEPT !.ip = fold_ip(v, pending)], "clear")
      [] OTHER -> Step(run_clear(v), "top")

\* the run loop takes no lock: other threads' accesses fall between its
\* statements
run_dispatch ==
    /\ hart_at \in {"run", "fold", "clear"}
    /\ hart_at = "run" => vm.wait_event = 0
    /\ vm' = run_event(vm, hart_at, timer_pending).vm
    /\ hart_at' = run_event(vm, hart_at, timer_pending).at
    /\ UNCHANGED <<timer_pending, events, cleared>>
    /\ HartOnly

\* the guest executes while wait_event is 1
Running == hart_at = "run" /\ vm.wait_event = 1

\* an instruction raises a trap
guest_trap(c, t) ==
    /\ Running
    /\ events < MaxEvents
    /\ vm' = riscv32_trap(vm, c, t)
    /\ events' = events + 1
    /\ UNCHANGED <<hart_at, timer_pending, cleared>>
    /\ HartOnly

\* WFI: riscv32_handle_ip(vm, true)
guest_wfi ==
    /\ Running
    /\ events < MaxEvents
    /\ vm' = riscv32_handle_ip(vm, TRUE).vm
    /\ events' = events + 1
    /\ UNCHANGED <<hart_at, timer_pending, cleared>>
    /\ HartOnly

\* MRET / SRET
xret(v, x) ==
    IF x = PRIVILEGE_MACHINE THEN
        LET s1 == bit_replace(v.status, MSTATUS_MIE, 1, bit_cut(v.status, MSTATUS_MPIE, 1))
            s2 == bit_replace(s1 \cup {MSTATUS_MPIE}, MSTATUS_MPP, 2, PRIVILEGE_USER)
        IN  [v EXCEPT !.priv_mode = bit_cut(v.status, MSTATUS_MPP, 2),
                      !.status = s2,
                      !.pc = v.epc[x]]
    ELSE
        LET s1 == bit_replace(v.status, MSTATUS_SIE, 1, bit_cut(v.status, MSTATUS_SPIE, 1))
            s2 == bit_replace(s1 \cup {MSTATUS_SPIE}, MSTATUS_SPP, 1, PRIVILEGE_USER)
        IN  [v EXCEPT !.priv_mode = bit_cut(v.status, MSTATUS_SPP, 1),
                      !.status = s2,
                      !.pc = v.epc[x]]

guest_xret(x) ==
    /\ Running
    /\ vm.priv_mode >= x
    /\ vm' = xret(vm, x)
    /\ UNCHANGED <<hart_at, timer_pending, events, cleared>>
    /\ HartOnly

\* Machine-mode firmware at the reset vector writes the delegation, enable,
\* vector and status CSRs
configure(v, cfg) ==
    [v EXCEPT !.edeleg[PRIVILEGE_MACHINE] = IF cfg.mdeleg THEN {TRAP_ENVCALL_UMODE} ELSE {},
              !.edeleg[PRIVILEGE_SUPERVISOR] = IF cfg.sdeleg THEN {TRAP_ENVCALL_UMODE} ELSE {},
              !.ideleg[PRIVILEGE_MACHINE] = IF cfg.mdeleg THEN DelegInts ELSE {},
              !.ideleg[PRIVILEGE_SUPERVISOR] = IF cfg.sdeleg THEN DelegInts ELSE {},
              !.ie = cfg.ie,
              !.tvec = [p \in Privs |-> IF p = PRIVILEGE_HYPERVISOR THEN {} ELSE cfg.tvec],
              !.status = cfg.status]

guest_configure(cfg) ==
    /\ Running
    /\ vm.priv_mode = PRIVILEGE_MACHINE
    /\ vm.pc = MEM_BEGIN
    /\ vm' = configure(vm, cfg)
    /\ UNCHANGED <<hart_at, timer_pending, events, cleared>>
    /\ HartOnly

\* the guest clears a pending bit with a CSR write to ip
guest_clear_ip(k) ==
    /\ Running
    /\ k \in vm.ip
    /\ vm' = [vm EXCEPT !.ip = @ \ {k}]
    /\ cleared' = cleared \cup {k}
    /\ UNCHANGED <<hart_at, timer_pending, events>>
    /\ HartOnly

\* the guest moves mtimecmp past mtime
guest_set_timecmp ==
    /\ Running
    /\ timer_pending
    /\ timer_pending' = FALSE
    /\ UNCHANGED <<vm, hart_at, events, cleared>>
    /\ HartOnly

\* mtime reaches mtimecmp
timer_fire ==
    /\ ~timer_pending
    /\ timer_pending' = TRUE
    /\ UNCHANGED <<vm, hart_at, events, cleared>>
    /\ HartOnly

\* ------------------------------------------------------------ other threads

\* the cause a poster posts: the IRQ thread the machine timer, a caller of
\* riscv32_interrupt the cause it was called with
PostCauseOf(t, c) == IF t = "irq" THEN INTERRUPT_MTIMER ELSE c

\* the poster as it makes an access: the first access of a call enters it
Entering(t, c) ==
    IF poster[t].at = "idle"
    THEN [PosterRest EXCEPT !.at = "in", !.c = PostCauseOf(t, c)]
    ELSE poster[t]

\* a call begins with its first access; counted calls are bounded.  While a
\* call posts cause c the source of c is asserting it
Begins(t, c, counted) ==
    /\ (poster[t].at = "idle" /\ counted) => events < MaxEvents
    /\ events' = IF poster[t].at = "idle" /\ counted THEN events + 1 ELSE events
    /\ cleared' = cleared \ {Entering(t, c).c}

\* a later access of the call
Goes(t) ==
    /\ events' = events
    /\ cleared' = cleared \ {poster[t].c}

\* the posters' steps leave the hart thread's place, the timer and the rest
PostFrame == UNCHANGED <<hart_at, timer_pending, regvars, lrvars, atavars>>

\* "vm->ev_int_mask |= (1 << cause)", the store: the value loaded before, with
\* the bit set
post_interrupt(v, tmp, c) == [v EXCEPT !.ev_int_mask = tmp \cup {c}]

\* a wake that does not store to wait_event
irq_post_nowake(v) == v

\* "atomic_store_explicit(&vm->wait_event, 0, memory_order_release)"
irq_post(v) == [v EXCEPT !.wait_event = 0]

\* riscv32_interrupt and the body of global_irq_handler's loop take no lock
\* on the hart: "vm->ev_int_mask |= ..." is a load and a store, "vm->ev_int =
\* true" a store the compiler may place before or after them, and the release
\* store to wait_event comes last.  PostLoad is the load ...
PostLoad(t, c, counted) ==
    /\ poster[t].at \in {"idle", "in"}
    /\ ~poster[t].ld
    /\ Begins(t, c, counted)
    /\ poster' = [poster EXCEPT ![t] = [Entering(t, c) EXCEPT !.ld = TRUE,
                                                             !.tmp = vm.ev_int_mask]]
    /\ UNCHANGED vm
    /\ PostFrame

\* ... PostStore the store ...
PostStore(t) ==
    /\ poster[t].at = "in"
    /\ poster[t].ld
    /\ ~poster[t].st
    /\ vm' = post_interrupt(vm, poster[t].tmp, poster[t].c)
    /\ poster' = [poster EXCEPT ![t].st = TRUE]
    /\ Goes(t)
    /\ PostFrame

\* ... PostFlag "vm->ev_int = true" ...
PostFlag(t, c, counted) ==
    /\ poster[t].at \in {"idle", "in"}
    /\ ~poster[t].fl
    /\ Begins(t, c, counted)
    /\ vm' = [vm EXCEPT !.ev_int = TRUE]
    /\ poster' = [poster EXCEPT ![t] = [Entering(t, c) EXCEPT !.fl = TRUE]]
    /\ PostFrame

\* ... and PostWake the store to wait_event, after which the poster is at
\* `after`
PostWake(t, after) ==
    /\ poster[t].at = "in"
    /\ poster[t].st
    /\ poster[t].fl
    /\ vm' = irq_post(vm)
    /\ poster' = [poster EXCEPT ![t] = [PosterRest EXCEPT !.at = after, !.c = poster[t].c]]
    /\ Goes(t)
    /\ PostFrame

\* riscv32_interrupt(vm, cause), called from a device thread, access by access
riscv32_interrupt(c) ==
    \/ PostLoad("dev", c, TRUE)
    \/ PostStore("dev")
    \/ PostFlag("dev", c, TRUE)
    \/ PostWake("dev", "idle")

\* global_irq_handler, one tick, for the registered hart, access by access
global_irq_handler ==
    \/ PostLoad("irq", INTERRUPT_MTIMER, TRUE)
    \/ PostStore("irq")
    \/ PostFlag("irq", INTERRUPT_MTIMER, TRUE)
    \/ PostWake("irq", "idle")

Next ==
    \/ run_top
    \/ run_dispatch
    \/ \E c \in TrapCauses, t \in TrapTvals : guest_trap(c, t)
    \/ guest_wfi
    \/ \E x \in {PRIVILEGE_MACHINE, PRIVILEGE_SUPERVISOR} : guest_xret(x)
    \/ \E cfg \in GuestConfigs : guest_configure(cfg)
    \/ \E k \in AllBits : guest_clear_ip(k)
    \/ guest_set_timecmp
    \/ timer_fire
    \/ \E c \in PostCauses : riscv32_interrupt(c)
    \/ global_irq_handler

Spec == Init /\ [][Next]_vars

\* ------------------------------------------------------------ the timer, live

\* the firmware has enabled the machine timer interrupt and set MIE, the timer
\* is pending, and the hart is about to run
InitLive ==
    /\ \E cfg \in GuestConfigs :
          /\ MSTATUS_MIE \in cfg.status
          /\ INTERRUPT_MTIMER \in cfg.ie
          /\ vm = configure(created_vm, cfg)
    /\ hart_at = "top"
    /\ timer_pending = TRUE
    /\ events = 0
    /\ cleared = {}
    /\ poster = PosterIdle
    /\ RegistryInit
    /\ LrScInit
    /\ AtaIdle

\* global_irq_handler: the IRQ thread ticks every 10 ms, for ever
global_irq_tick ==
    \/ PostLoad("irq", INTERRUPT_MTIMER, FALSE)
    \/ PostStore("irq")
    \/ PostFlag("irq", INTERRUPT_MTIMER, FALSE)
    \/ PostWake("irq", "idle")

\* the cause the device of this scenario posts: the supervisor external
\* interrupt
LiveCauses == {9}

\* the hart runs guest code that raises no trap, the device posts interrupts,
\* the IRQ thread ticks
NextLive ==
    \/ run_top
    \/ run_dispatch
    \/ global_irq_tick
    \/ \E c \in LiveCauses : riscv32_interrupt(c)

\* the hart thread and the IRQ thread are threads of the host, each scheduled
\* again and again
SpecLive ==
    /\ InitLive
    /\ [][NextLive]_vars
    /\ WF_vars(run_top)
    /\ WF_vars(run_dispatch)
    /\ WF_vars(global_irq_tick)

\* ------------------------------------------------------------ one post against the ticks

\* causes the device thread posts with riscv32_interrupt
RaceCauses == {8, 9}

InitRace ==
    /\ vm = created_vm
    /\ hart_at = "top"
    /\ timer_pending = TRUE
    /\ events = 0
    /\ cleared = {}
    /\ poster = PosterIdle
    /\ RegistryInit
    /\ LrScInit
    /\ AtaIdle

\* the accesses of the two posters; riscv32_interrupt is called once
post_load(t, c) == PostLoad(t, c, FALSE)
post_store(t) == PostStore(t)
post_flag(t, c) == PostFlag(t, c, FALSE)
post_wake(t) == PostWake(t, IF t = "irq" THEN "idle" ELSE "done")

Posters == {"irq", "dev"}

NextRace ==
    \/ \E t \in Posters, c \in RaceCauses : post_load(t, c)
    \/ \E t \in Posters : post_store(t)
    \/ \E t \in Posters, c \in RaceCauses : post_flag(t, c)
    \/ \E t \in Posters : post_wake(t)
    \/ run_top
    \/ run_dispatch

\* a step of the hart thread, of one poster
HartRaceStep == run_top \/ run_dispatch
PosterStep(t) ==
    \/ \E c \in RaceCauses : post_load(t, c)
    \/ post_store(t)
    \/ \E c \in RaceCauses : post_flag(t, c)
    \/ post_wake(t)

\* every thread of the host is scheduled again and again
SpecRace ==
    /\ InitRace
    /\ [][NextRace]_vars
    /\ WF_vars(HartRaceStep)
    /\ WF_vars(PosterStep("irq"))
    /\ WF_vars(PosterStep("dev"))

\* ------------------------------------------------------------ LR/SC

\* LR.W: the hart takes a reservation
guest_lr ==
    /\ Running
    /\ reservation' = TRUE
    /\ UNCHANGED <<sc_ret, hartvars, poster, regvars, atavars>>

\* SC.W: succeeds (returns 0) with a reservation, fails (returns 1) without,
\* and gives the reservation up
guest_sc ==
    /\ Running
    /\ sc_ret' = IF reservation THEN 0 ELSE 1
    /\ reservation' = FALSE
    /\ UNCHANGED <<hartvars, poster, regvars, atavars>>

NextLrSc ==
    \/ run_top
    \/ run_dispatch
    \/ \E cfg \in GuestConfigs : guest_configure(cfg)
    \/ \E c \in TrapCauses, t \in TrapTvals : guest_trap(c, t)
    \/ guest_lr
    \/ guest_sc

SpecLrSc == Init /\ [][NextLrSc]_vars

\* ------------------------------------------------------------ the registry, running

\* global_irq_handler: sleep_ms(10), then spin_lock(&global_lock)
irq_thread_lock ==
    /\ Alive
    /\ irqt = "sleep"
    /\ spin_lock_ok(global_lock)
    /\ global_lock' = 1
    /\ irqt' = "locked"
    /\ UNCHANGED <<global_vm_list, global_vm_count, global_init, harts, main, irq_starts>>
    /\ RegKeep

\* a loop that stops after the first registered hart
irq_visits_first(i, vmcnt) ==
    IF Registered = {} THEN {} ELSE {parent_vm}

\* global_irq_handler's loop from slot i with vmcnt harts visited: the harts
\* it posts to before "++vmcnt == global_vm_count" breaks it or the slots end
RECURSIVE irq_visits(_, _)
irq_visits(i, vmcnt) ==
    IF i \notin Slots THEN {}
    ELSE IF global_vm_list[i] = NULL THEN irq_visits(i + 1, vmcnt)
    ELSE {global_vm_list[i]} \cup
         (IF vmcnt + 1 = global_vm_count THEN {} ELSE irq_visits(i + 1, vmcnt + 1))

\* global_irq_handler: the loop over global_vm_list, under the lock
irq_thread_loop ==
    /\ irqt = "locked"
    /\ harts' = [r \in Refs |->
                    IF r \in irq_visits(0, 0)
                    THEN [harts[r] EXCEPT !.ev_int_mask = @ \cup {INTERRUPT_MTIMER},
                                          !.ev_int = TRUE,
                                          !.wait_event = 0]
                    ELSE harts[r]]
    /\ irqt' = "unlock"
    /\ UNCHANGED <<global_lock, global_vm_list, global_vm_count, global_init, main, irq_starts>>
    /\ RegKeep

\* global_irq_handler: spin_unlock(&global_lock), back to sleep
irq_thread_unlock ==
    /\ irqt = "unlock"
    /\ global_lock' = 0
    /\ irqt' = "sleep"
    /\ UNCHANGED <<global_vm_list, global_vm_count, global_init, harts, main, irq_starts>>
    /\ RegKeep

\* one hart model at rest beside the registry before the first creation
InitReg ==
    /\ vm = created_vm
    /\ hart_at = "top"
    /\ timer_pending = FALSE
    /\ events = 0
    /\ cleared = {}
    /\ poster = PosterIdle
    /\ RegistryInit
    /\ LrScInit
    /\ AtaIdle

NextReg ==
    \/ \E h \in HartIds, alloc_ok \in BOOLEAN, dev_ok \in BOOLEAN :
           create_call(h, alloc_ok, dev_ok)
    \/ main_lock
    \/ \E ub \in NullRead : create_fan_out(ub)
    \/ create_fan_unlock
    \/ register_vm
    \/ register_unlock
    \/ create_return
    \/ \E v \in Refs : destroy_call(v)
    \/ deregister_vm
    \/ deregister_unlock
    \/ destroy_free
    \/ \E h \in HartIds : get_hart_call(h)
    \/ irq_thread_lock
    \/ irq_thread_loop
    \/ irq_thread_unlock

SpecReg == InitReg /\ [][NextReg]_vars

\* ------------------------------------------------------------ the ATA device

\* data registers (offset >> ATA_REG_SHIFT), control registers
ATA_REG_DATA == 0
ATA_REG_ERR == 1
ATA_REG_NSECT == 2
ATA_REG_LBAL == 3
ATA_REG_LBAM == 4
ATA_REG_LBAH == 5
ATA_REG_DEVICE == 6
ATA_REG_STATUS == 7
ATA_REG_CTL == 0
ATA_REG_DRVADDR == 1
ATA_REG_SHIFT == 2

\* flags of the ERR and STATUS registers, as bit positions
ATA_ERR_AMNF == 0
ATA_ERR_ABRT == 2
ATA_ERR_UNC == 6
ATA_STATUS_ERR == 0
ATA_STATUS_DRQ == 3
ATA_STATUS_SRV == 4
ATA_STATUS_RDY == 6

\* bits of the byte written to DEVICE (drive select) and to CTL (soft reset,
\* high order byte)
DEVICE_DRV == 4
CTL_SRST == 2
CTL_HOB == 7

ATA_CMD_IDENTIFY == 236
ATA_CMD_INITIALIZE_DEVICE_PARAMS == 145
ATA_CMD_READ_SECTORS == 32
ATA_CMD_WRITE_SECTORS == 48

\* uint16_t arithmetic
U16 == 65536

\* bit n of the byte b
bit_check(b, n) == (b \div Pow2(n)) % 2 = 1

\* the number a set of bit positions stands for
RECURSIVE ValOf(_)
ValOf(S) == IF S = {} THEN 0 ELSE LET k == CHOOSE k \in S : TRUE IN Pow2(k) + ValOf(S \ {k})

\* "reg <<= 8; reg |= byte" on a 16-bit register
shift_in(x, v) == ((x * 256) % U16) + v

\* "(reg >> hob_shift) & 0xff"
shift_out(x, hob_shift) == (x \div Pow2(hob_shift)) % 256

\* the selected drive, and the device with the selected drive replaced
curdrv(a) == a.drive[a.curdrive]
with_cur(a, d) == [a EXCEPT !.drive[a.curdrive] = d]

\* DIV_ROUND_UP(x, d)
DIV_ROUND_UP(x, d) == (x + d - 1) \div d

\* a host I/O failure that leaves the drive's status and error as they were
io_error_silent(d) == d

\* "status |= ATA_STATUS_ERR; error |= ATA_ERR_UNC"
io_error(d) ==
    [d EXCEPT !.status = @ \cup {ATA_STATUS_ERR}, !.error = @ \cup {ATA_ERR_UNC}]

\* where the error register lies in a drive
ErrorAt == 8 + 8 + 6 * 2

\* the bytes of a drive before its buf: the pointer, the size, the seven
\* 16-bit registers low byte first, status and hob_shift
header(d) ==
    [i \in 1..HeaderBytes |->
        IF i <= 8 THEN d.fp[i]
        ELSE IF i <= 16 THEN d.size[i - 8]
        ELSE LET regs == <<d.bytes_to_rw, d.sectcount, d.lbal, d.lbam, d.lbah, d.drive,
                           ValOf(d.error), ValOf(d.status) + 256 * d.hob_shift>>
                 r == regs[((i - 17) \div 2) + 1]
             IN  IF (i - 17) % 2 = 0 THEN r % 256 ELSE r \div 256]

\* the uint16_t at byte i of the header h
u16_at(h, i) == h[i] + 256 * h[i + 1]

\* the drive whose bytes before buf are h
from_header(h, buf) ==
    [fp |-> [i \in 1..8 |-> h[i]], size |-> [i \in 1..8 |-> h[8 + i]],
     bytes_to_rw |-> u16_at(h, 17), sectcount |-> u16_at(h, 19),
     lbal |-> u16_at(h, 21), lbam |-> u16_at(h, 23), lbah |-> u16_at(h, 25),
     drive |-> u16_at(h, 27), error |-> Bits(u16_at(h, 29)),
     status |-> Bits(h[31]), hob_shift |-> h[32], buf |-> buf]

\* the bytes h[lo .. hi] of a header as a string
RECURSIVE header_bytes(_, _, _)
header_bytes(h, lo, hi) ==
    IF lo = hi THEN Run(1, h[lo])
    ELSE Cat(header_bytes(h, lo, (lo + hi) \div 2), header_bytes(h, (lo + hi) \div 2 + 1, hi))

\* the bytes of the struct: the two drives, curdrive and the padding
image(a) ==
    LET drive_bytes(D) == Cat(header_bytes(header(a.drive[D]), 1, HeaderBytes), a.drive[D].buf)
    IN  Cat(Cat(drive_bytes(0), drive_bytes(1)), Cat(Run(1, a.curdrive), a.pad))

\* the farthest a copy starts before the struct or ends after it: bytes_to_rw
\* and size are below 2^16
Reach == U16 + SECTOR_SIZE

\* the host's memory around the struct: the bytes before it and after it
Heap(before, after) == [before |-> before, after |-> after]

\* the size bytes at offset o of the struct
mem_bytes(a, o, size, mem) ==
    Take(Drop(Cat(Cat(mem.before, image(a)), mem.after), o + NBytes(mem.before)), size)

\* the drive after bytes lo .. hi - 1 of it were set to val
poke_drive(d, lo, hi, val) ==
    LET h == header(d)
        h1 == [i \in 1..HeaderBytes |-> IF lo <= i - 1 /\ i - 1 < hi THEN val ELSE h[i]]
        blo == (IF lo > HeaderBytes THEN lo ELSE HeaderBytes) - HeaderBytes
        bhi == (IF hi < DriveBytes THEN hi ELSE DriveBytes) - HeaderBytes
        buf1 == IF bhi > blo THEN Splice(d.buf, blo, Run(bhi - blo, val)) ELSE d.buf
    IN  IF hi <= 0 \/ lo >= DriveBytes \/ hi <= lo THEN d
        ELSE IF lo >= HeaderBytes THEN [d EXCEPT !.buf = buf1]
        ELSE from_header(h1, buf1)

\* memcpy(addr, memory_data, size) with addr at offset o of the struct and
\* memory_data holding size bytes val: the struct afterwards, member by
\* member (what the copy does to memory outside the struct is not kept)
memcpy_in(a, o, size, val) ==
    LET plo == (IF o > CurdriveAt + 1 THEN o ELSE CurdriveAt + 1) - CurdriveAt - 1
        phi == (IF o + size < StructBytes THEN o + size ELSE StructBytes) - CurdriveAt - 1
    IN  [drive |-> [D \in {0, 1} |->
                       poke_drive(a.drive[D], o - D * DriveBytes, o + size - D * DriveBytes,
                                  val)],
         curdrive |-> IF o <= CurdriveAt /\ CurdriveAt < o + size THEN val ELSE a.curdrive,
         pad |-> IF phi > plo THEN Splice(a.pad, plo, Run(phi - plo, val)) ELSE a.pad]

\* memcpy(memory_data, addr, size) with addr at offset o of the struct
memcpy_out(a, o, size, mem) ==
    LET k == o - a.curdrive * DriveBytes - HeaderBytes
    IN  IF a.curdrive \in {0, 1} /\ k >= 0 /\ k + size <= SECTOR_SIZE
        THEN Flat(Take(Drop(curdrv(a).buf, k), size))
        ELSE Flat(mem_bytes(a, o, size, mem))

\* "buf + SECTOR_SIZE - bytes_to_rw" of the selected drive, as an offset
buf_at(a) == a.curdrive * DriveBytes + HeaderBytes + SECTOR_SIZE - curdrv(a).bytes_to_rw

\* the FILE a pointer is: none (NULL), one of the two the host has open, or
\* no FILE at all
file_of(fs, p) ==
    IF p = NullPtr THEN "null"
    ELSE IF fs.master.open /\ p = fs.master.addr THEN "master"
    ELSE IF fs.slave.open /\ p = fs.slave.addr THEN "slave"
    ELSE "wild"

\* what the host calls of an access came to: none was made, all succeeded,
\* one failed, or one was given a pointer that is no open FILE
Host(x, y) ==
    IF "bad_file" \in {x, y} THEN "bad_file"
    ELSE IF "failed" \in {x, y} THEN "failed"
    ELSE IF "ok" \in {x, y} THEN "ok"
    ELSE "none"

\* ata_get_lba(ata, false): the sector number
ata_get_lba(d) ==
    (d.lbal % 256) + (d.lbam % 256) * Pow2(8) + (d.lbah % 256) * Pow2(16)
        + (d.drive % 16) * Pow2(24)

\* the bytes of the file f from its position to its end
avail(f) ==
    LET len == NBytes(f.bytes)
    IN  IF f.pos.sector > len \div SECTOR_SIZE THEN 0
        ELSE IF f.pos.sector * SECTOR_SIZE + f.pos.byte >= len THEN 0
        ELSE len - f.pos.sector * SECTOR_SIZE - f.pos.byte

\* the position n bytes after pos
advance(pos, n) ==
    [sector |-> pos.sector + (pos.byte + n) \div SECTOR_SIZE,
     byte |-> (pos.byte + n) % SECTOR_SIZE]

\* fseek(p, sector * SECTOR_SIZE, SEEK_SET): the host fails it (io =
\* "seek_fail") or the position moves
fseek(fs, p, sector, io) ==
    LET r == file_of(fs, p)
    IN  IF r \in {"null", "wild"} THEN [fs |-> fs, ok |-> io # "seek_fail", host |-> "bad_file"]
        ELSE IF io = "seek_fail" THEN [fs |-> fs, ok |-> FALSE, host |-> "failed"]
        ELSE [fs |-> [fs EXCEPT ![r].pos = [sector |-> sector, byte |-> 0]],
              ok |-> TRUE, host |-> "ok"]

\* fread(buf, SECTOR_SIZE, 1, p): the bytes it puts in buf are those the file
\* holds from its position on, a sector of them unless the file ends before
\* or the host fails the read (io = "rw_fail") after part bytes; it returns
\* 1 (ok) if it got the whole sector
fread(fs, p, io, part) ==
    LET r == file_of(fs, p)
        f == fs[r]
        most == IF io = "rw_fail" THEN (IF part < SECTOR_SIZE THEN part ELSE SECTOR_SIZE - 1)
                ELSE SECTOR_SIZE
        n == IF avail(f) < most THEN avail(f) ELSE most
        got == IF n = 0 THEN <<>>
               ELSE Take(Drop(f.bytes, f.pos.sector * SECTOR_SIZE + f.pos.byte), n)
    IN  IF r \in {"null", "wild"}
        THEN [fs |-> fs, got |-> <<>>, ok |-> io # "rw_fail", host |-> "bad_file"]
        ELSE [fs |-> [fs EXCEPT ![r].pos = advance(f.pos, n)], got |-> got,
              ok |-> n = SECTOR_SIZE, host |-> IF n = SECTOR_SIZE THEN "ok" ELSE "failed"]

\* fwrite(buf, SECTOR_SIZE, 1, p): the sector goes to the file at its
\* position, after zeros if the position is past the end, unless the host
\* fails the write (io = "rw_fail") after part bytes
fwrite(fs, p, buf, io, part) ==
    LET r == file_of(fs, p)
        f == fs[r]
        n == IF io = "rw_fail" THEN (IF part < SECTOR_SIZE THEN part ELSE SECTOR_SIZE - 1)
             ELSE SECTOR_SIZE
        at == f.pos.sector * SECTOR_SIZE + f.pos.byte
        base == Cat(f.bytes, Run(at - NBytes(f.bytes), 0))
        bytes1 == IF n = 0 THEN f.bytes ELSE Splice(base, at, Take(buf, n))
    IN  IF r \in {"null", "wild"}
        THEN [fs |-> fs, ok |-> io # "rw_fail", host |-> "bad_file"]
        ELSE [fs |-> [fs EXCEPT ![r].bytes = bytes1, ![r].pos = advance(f.pos, n)],
              ok |-> n = SECTOR_SIZE, host |-> IF n = SECTOR_SIZE THEN "ok" ELSE "failed"]

\* id_buf[i] of ata_cmd_identify, for a drive of sz sectors
id_buf(i, sz) ==
    LET big == \E k \in 5..8 : sz[k] # 0
        low == IF big THEN 65535 ELSE sz[1] + 256 * sz[2]
        high == IF big THEN 65535 ELSE sz[3] + 256 * sz[4]
    IN  CASE i = 0 -> 64
          [] i \in {1, 54} -> 65535
          [] i \in {3, 55} -> 16
          [] i \in {6, 56} -> 63
          [] i = 22 -> 4
          [] i = 49 -> 512
          [] i = 50 -> 16384
          [] i = 51 -> 1024
          [] i \in {53, 64} -> 3
          [] i \in {57, 60} -> low
          [] i \in {58, 61} -> high
          [] i \in {67, 68} -> 1
          [] OTHER -> 0

\* the bytes of id_buf[lo .. hi - 1], low byte first
RECURSIVE id_bytes(_, _, _)
id_bytes(lo, hi, sz) ==
    IF hi - lo = 1
    THEN Cat(Run(1, id_buf(lo, sz) % 256), Run(1, id_buf(lo, sz) \div 256))
    ELSE Cat(id_bytes(lo, (lo + hi) \div 2, sz), id_bytes((lo + hi) \div 2, hi, sz))

\* the words of id_buf before and after the capacity
IdHead == id_bytes(0, 57, size_t_bytes(0))
IdTail == id_bytes(62, SECTOR_SIZE \div 2, size_t_bytes(0))

\* ata_cmd_identify
ata_cmd_identify(d) ==
    [d EXCEPT !.buf = Cat(Cat(IdHead, id_bytes(57, 62, d.size)), IdTail),
              !.bytes_to_rw = SECTOR_SIZE,
              !.status = {ATA_STATUS_RDY, ATA_STATUS_SRV, ATA_STATUS_DRQ},
              !.sectcount = 1]

\* ata_cmd_initialize_device_params
ata_cmd_initialize_device_params(d) ==
    [d EXCEPT !.status = @ \cup {ATA_STATUS_ERR}, !.error = @ \cup {ATA_ERR_ABRT}]


\* what a command or a transfer gives back: the drive, the host's files, and
\* what the host calls came to
Drive(d, fs, host) == [d |-> d, fs |-> fs, host |-> host]

\* ata_read_buf: fread(buf, SECTOR_SIZE, 1, fp) puts the bytes it got at the
\* start of the buffer, and a whole sector makes the buffer pending
ata_read_buf(d, fs, io, part) ==
    LET r == fread(fs, d.fp, io, part)
        d1 == [d EXCEPT !.buf = Splice(@, 0, r.got)]
    IN  [d |-> IF r.ok THEN [d1 EXCEPT !.bytes_to_rw = SECTOR_SIZE] ELSE d1,
         fs |-> r.fs, ok |-> r.ok, host |-> r.host]

\* ata_write_buf: fwrite(buf, SECTOR_SIZE, 1, fp)
ata_write_buf(d, fs, io, part) == fwrite(fs, d.fp, d.buf, io, part)

\* ata_cmd_read_sectors; io is what the host does to the calls on the file
\* beyond what the file itself gives: nothing ("ok"), it fails the seek
\* ("seek_fail"), or it fails the read or write after part bytes ("rw_fail")
ata_cmd_read_sectors(d, fs, io, part) ==
    LET d1 == [d EXCEPT !.sectcount = IF @ = 0 THEN 256 ELSE @,
                        !.status = @ \cup {ATA_STATUS_DRQ, ATA_STATUS_RDY}]
        s == fseek(fs, d1.fp, ata_get_lba(d1), io)
        r == ata_read_buf(d1, s.fs, io, part)
    IN  IF ~s.ok THEN Drive(io_error(d1), s.fs, s.host)
        ELSE Drive(IF r.ok THEN r.d ELSE io_error(r.d), r.fs, Host(s.host, r.host))

\* ata_cmd_write_sectors
ata_cmd_write_sectors(d, fs, io) ==
    LET d1 == [d EXCEPT !.sectcount = IF @ = 0 THEN 256 ELSE @,
                        !.status = @ \cup {ATA_STATUS_DRQ, ATA_STATUS_RDY}]
        s == fseek(fs, d1.fp, ata_get_lba(d1), io)
    IN  IF ~s.ok THEN Drive(io_error(d1), s.fs, s.host)
        ELSE Drive([d1 EXCEPT !.bytes_to_rw = SECTOR_SIZE], s.fs, s.host)

\* ata_handle_cmd
ata_handle_cmd(d, fs, cmd, io, part) ==
    CASE cmd = ATA_CMD_IDENTIFY -> Drive(ata_cmd_identify(d), fs, "none")
      [] cmd = ATA_CMD_INITIALIZE_DEVICE_PARAMS ->
             Drive(ata_cmd_initialize_device_params(d), fs, "none")
      [] cmd = ATA_CMD_READ_SECTORS -> ata_cmd_read_sectors(d, fs, io, part)
      [] cmd = ATA_CMD_WRITE_SECTORS -> ata_cmd_write_sectors(d, fs, io)
      [] OTHER -> Drive(d, fs, "none")

\* ata_data_mmio_handler, case ATA_REG_DATA, write, after the memcpy: the
\* count of bytes awaited goes down, and when the sector is complete it is
\* flushed to the file
data_write(d, fs, size, io, part) ==
    LET left == (d.bytes_to_rw - size) % U16
        cnt == (d.sectcount - 1) % U16
        d1 == [d EXCEPT !.bytes_to_rw = IF cnt # 0 THEN SECTOR_SIZE ELSE 0,
                        !.sectcount = cnt,
                        !.status = IF cnt # 0 THEN @ \cup {ATA_STATUS_DRQ}
                                   ELSE @ \ {ATA_STATUS_DRQ}]
        w == ata_write_buf(d1, fs, io, part)
    IN  IF left # 0 THEN Drive([d EXCEPT !.bytes_to_rw = left], fs, "none")
        ELSE Drive(IF w.ok THEN d1 ELSE io_error(d1), w.fs, w.host)

\* ata_data_mmio_handler, case ATA_REG_DATA, read, after the memcpy: the
\* buffer drains, and when it is empty and sectors remain it is refilled from
\* the file
data_read(d, fs, size, io, part) ==
    LET left == (d.bytes_to_rw - size) % U16
        cnt == (d.sectcount - 1) % U16
        d1 == [d EXCEPT !.bytes_to_rw = 0,
                        !.sectcount = cnt,
                        !.status = IF cnt # 0 THEN @ \cup {ATA_STATUS_DRQ}
                                   ELSE @ \ {ATA_STATUS_DRQ}]
        r == ata_read_buf(d1, fs, io, part)
    IN  IF d.bytes_to_rw = 0 THEN Drive(d, fs, "none")
        ELSE IF left # 0 THEN Drive([d EXCEPT !.bytes_to_rw = left], fs, "none")
        ELSE IF cnt = 0 THEN Drive(d1, fs, "none")
        ELSE Drive(IF r.ok THEN r.d ELSE io_error(r.d), r.fs, r.host)

\* ata_ctl_mmio_handler, the soft reset of the selected drive
soft_reset(d) ==
    [d EXCEPT !.bytes_to_rw = 0, !.lbal = 1, !.lbah = 0, !.lbam = 0,
              !.sectcount = 1, !.drive = 0,
              !.error = IF d.fp # NullPtr THEN {ATA_ERR_AMNF} ELSE {},
              !.status = IF d.fp # NullPtr THEN {ATA_STATUS_RDY, ATA_STATUS_SRV} ELSE {}]

\* what a handler gives back: the device, the host's files, the return
\* value, the bytes it put in memory_data, and what the host calls came to
Done(a, fs, ret, rd, host) == [ata |-> a, fs |-> fs, ret |-> ret, rd |-> rd, host |-> host]

\* ata_data_mmio_handler: "if (size != 1 && offset != ATA_REG_DATA) return false"
size_ok(size, reg) == ~(size # 1 /\ reg # ATA_REG_DATA)

\* the selected drive replaced by what a command or a transfer made of it
Cur(a, r, rd) == Done(with_cur(a, r.d), r.fs, TRUE, rd, r.host)

\* ata_data_mmio_handler, case ATA_REG_DATA, write: the memcpy to
\* "buf + SECTOR_SIZE - bytes_to_rw", then the count, and the flush, on the
\* drive that is selected after it
data_register_write(a, fs, size, val, io, part) ==
    LET a1 == memcpy_in(a, buf_at(a), size, val)
    IN  IF a1.curdrive \in {0, 1}
        THEN Cur(a1, data_write(curdrv(a1), fs, size, io, part), <<>>)
        ELSE Done(a1, fs, TRUE, <<>>, "none")

\* ata_data_mmio_handler(offset, size, access) with val each byte written, fs
\* the host's files, io and part what the host does to the calls on them, mem
\* the memory around the struct
ata_data_mmio_handler(a, fs, offset, size, write, val, io, part, mem) ==
    LET reg == offset \div Pow2(ATA_REG_SHIFT)
        d == curdrv(a)
        Reg(a1, rd) == Done(a1, fs, TRUE, rd, "none")
    IN  IF offset % Pow2(ATA_REG_SHIFT) # 0 THEN Done(a, fs, FALSE, <<>>, "none")
        ELSE IF ~size_ok(size, reg) THEN Done(a, fs, FALSE, <<>>, "none")
        ELSE CASE reg = ATA_REG_DATA ->
                     IF write THEN data_register_write(a, fs, size, val, io, part)
                     ELSE IF d.bytes_to_rw = 0
                     THEN Reg(a, [j \in 1..size |-> 0])
                     ELSE Cur(a, data_read(d, fs, size, io, part),
                              memcpy_out(a, buf_at(a), size, mem))
               [] reg = ATA_REG_ERR ->
                     IF write THEN Reg(a, <<>>)
                     ELSE Reg(a, Flat(mem_bytes(a, a.curdrive * DriveBytes + ErrorAt, size,
                                                mem)))
               [] reg = ATA_REG_NSECT ->
                     IF write
                     THEN Reg(with_cur(a, [d EXCEPT !.sectcount = shift_in(@, val)]), <<>>)
                     ELSE Reg(a, <<shift_out(d.sectcount, d.hob_shift)>>)
               [] reg = ATA_REG_LBAL ->
                     IF write
                     THEN Reg(with_cur(a, [d EXCEPT !.lbal = shift_in(@, val)]), <<>>)
                     ELSE Reg(a, <<shift_out(d.lbal, d.hob_shift)>>)
               [] reg = ATA_REG_LBAM ->
                     IF write
                     THEN Reg(with_cur(a, [d EXCEPT !.lbam = shift_in(@, val)]), <<>>)
                     ELSE Reg(a, <<shift_out(d.lbam, d.hob_shift)>>)
               [] reg = ATA_REG_LBAH ->
                     IF write
                     THEN Reg(with_cur(a, [d EXCEPT !.lbah = shift_in(@, val)]), <<>>)
                     ELSE Reg(a, <<shift_out(d.lbah, d.hob_shift)>>)
               [] reg = ATA_REG_DEVICE ->
                     IF write
                     THEN LET a1 == [a EXCEPT !.curdrive = IF bit_check(val, DEVICE_DRV)
                                                           THEN 1 ELSE 0]
                          IN  Reg(with_cur(a1, [curdrv(a1) EXCEPT !.drive = val]), <<>>)
                     ELSE Reg(a, <<ValOf(Bits(d.drive % 256) \cup {5, 7})>>)
               [] reg = ATA_REG_STATUS ->
                     IF write
                     THEN Cur(a, ata_handle_cmd(
                                     [d EXCEPT !.error = {}, !.status = @ \ {ATA_STATUS_ERR}],
                                     fs, val, io, part), <<>>)
                     ELSE Reg(a, <<ValOf(d.status)>>)
               [] OTHER -> Reg(a, <<>>)

\* ata_ctl_mmio_handler(offset, size, access) with val the byte written
ata_ctl_mmio_handler(a, fs, offset, size, write, val) ==
    LET reg == offset \div Pow2(ATA_REG_SHIFT)
        d == curdrv(a)
    IN  IF size # 1 \/ offset % Pow2(ATA_REG_SHIFT) # 0 THEN Done(a, fs, FALSE, <<>>, "none")
        ELSE IF reg = ATA_REG_CTL THEN
            IF ~write THEN Done(a, fs, TRUE, <<ValOf(d.status)>>, "none")
            ELSE LET d1 == [d EXCEPT !.hob_shift = IF bit_check(val, CTL_HOB) THEN 8 ELSE 0]
                 IN  Done(with_cur(a, IF bit_check(val, CTL_SRST) THEN soft_reset(d1) ELSE d1),
                          fs, TRUE, <<>>, "none")
        ELSE Done(a, fs, TRUE, <<>>, "none")

\* the length of a file of three sectors and part of a fourth, and where the
\* host's allocator put the FILE of the master and of the slave: low in the
\* address space (the upper four bytes zero) or high
ImageBytes == 1600
Heaps ==
    {[master |-> <<160, 82, 64, 0, 0, 0, 0, 0>>, slave |-> <<128, 84, 64, 0, 0, 0, 0, 0>>],
     [master |-> <<160, 162, 85, 85, 85, 85, 0, 0>>,
      slave |-> <<128, 164, 85, 85, 85, 85, 0, 0>>]}

\* the images ata_init can be given at an address: no FILE (NULL), an empty
\* file, a file of ImageBytes bytes
Images(addr) == {NoImage, File(0, addr), File(ImageBytes, addr)}

\* the most MMIO accesses in a run, the most of them that write a register
\* other than DATA and the command register, and the most commands
MaxAccesses == 4
MaxSetup == 2
MaxCmds == 1

\* what undefined behaviour comes to at once: the process dies, or it goes on
\* with what the call or the copy left; what it does later is not followed
\* (ata_at = "undefined")
UBOutcomes == {"crash", "go_on"}

\* the byte the first sector of an image holds everywhere (each sector holds
\* the next byte), and the bytes a read or write the host fails has moved
SectorByte == 65
PartBytes == 188

\* the len bytes of an image from its sector k on
RECURSIVE file_bytes(_, _)
file_bytes(len, k) ==
    IF len <= 0 THEN <<>>
    ELSE Cat(Run(IF len < SECTOR_SIZE THEN len ELSE SECTOR_SIZE, (SectorByte + k) % 256),
             file_bytes(len - SECTOR_SIZE, k + 1))

\* the host's FILE for an image, at its start
open_file(img) ==
    [open |-> img.given, addr |-> img.addr, bytes |-> file_bytes(img.bytes, 0),
     pos |-> [sector |-> 0, byte |-> 0]]

\* get_img_size(fp) for an open file: its length, 0 with a message if empty;
\* the file is left at its start
get_img_size(fp) == fp.bytes

\* ata_init passes get_img_size a NULL FILE: for the master when no master
\* image is given, and for the slave, whose size it takes from drive[0].fp,
\* when that is or has just been made NULL
init_null_file(master, slave) == master = NoImage \/ get_img_size(master) = 0

\* ata_init: the device it registers; null_size is what get_img_size(NULL)
\* returned where it was called and came back
ata_init_dev(master, slave, null_size) ==
    LET size0 == IF master = NoImage THEN DIV_ROUND_UP(null_size, SECTOR_SIZE)
                 ELSE DIV_ROUND_UP(get_img_size(master), SECTOR_SIZE)
        fp0 == IF master # NoImage /\ size0 # 0 THEN master.addr ELSE NullPtr
        size1 == IF fp0 # NullPtr THEN DIV_ROUND_UP(get_img_size(master), SECTOR_SIZE)
                 ELSE DIV_ROUND_UP(null_size, SECTOR_SIZE)
        fp1 == IF slave # NoImage /\ size1 # 0 THEN slave.addr ELSE NullPtr
    IN  [calloc_ata EXCEPT !.drive[0].fp = fp0, !.drive[0].size = size_t_bytes(size0),
                           !.drive[1].fp = fp1, !.drive[1].size = size_t_bytes(size1)]

\* ata_init(vm, data_base, ctl_base, master, slave), called with an image
\* (the assert); ub settles a get_img_size(NULL)
ata_init(master, slave, ub, null_size) ==
    /\ ata_at = "uninit"
    /\ master # NoImage \/ slave # NoImage
    /\ init_null_file(master, slave) \/ (ub = "go_on" /\ null_size = 0)
    /\ IF init_null_file(master, slave) /\ ub = "crash"
       THEN /\ ata_at' = "crashed"
            /\ ata' = ata
       ELSE /\ ata_at' = IF init_null_file(master, slave) THEN "undefined" ELSE "ready"
            /\ ata' = ata_init_dev(master, slave, null_size)
    /\ ata_files' = [master |-> open_file(master), slave |-> open_file(slave)]
    /\ ata_hist' = [ata_hist EXCEPT !.master = master, !.slave = slave]
    /\ UNCHANGED ata_last
    /\ UNCHANGED <<hartvars, poster, regvars, lrvars>>

\* an MMIO access: the handler, the byte offset, the size, the direction,
\* each byte written, what the host does to the calls on the file if the
\* access makes any, and the bytes a read or write it fails has moved
Acc(h, offset, size, write, val, io, part) ==
    [h |-> h, offset |-> offset, size |-> size, write |-> write, val |-> val, io |-> io,
     part |-> part]

\* a word of the sector, and a whole sector at once
Sizes == {4, SECTOR_SIZE}
IOs == {"ok", "seek_fail", "rw_fail"}

\* the bytes moved by a read or write that the host does io to
Part(io) == IF io = "rw_fail" THEN PartBytes ELSE 0

\* the byte offset of a register
RegOff(r) == r * Pow2(ATA_REG_SHIFT)

\* accesses of the DATA register
DataAccesses ==
    {Acc("data", RegOff(ATA_REG_DATA), s, FALSE, 0, io, Part(io)) :
        s \in Sizes, io \in {"ok", "rw_fail"}}
    \cup {Acc("data", RegOff(ATA_REG_DATA), s, TRUE, v, io, Part(io)) :
            s \in Sizes, v \in {0, 255}, io \in {"ok", "rw_fail"}}

\* byte writes of the other data registers
RegWrites ==
    {Acc("data", RegOff(rv[1]), 1, TRUE, rv[2], "ok", 0) :
        rv \in {<<ATA_REG_NSECT, 1>>, <<ATA_REG_NSECT, 2>>, <<ATA_REG_LBAL, 1>>,
                <<ATA_REG_DEVICE, Pow2(DEVICE_DRV)>>}}

\* commands
CmdWrites ==
    {Acc("data", RegOff(ATA_REG_STATUS), 1, TRUE, ATA_CMD_READ_SECTORS, io, Part(io)) :
        io \in IOs}
    \cup {Acc("data", RegOff(ATA_REG_STATUS), 1, TRUE, ATA_CMD_WRITE_SECTORS, io, 0) :
            io \in {"ok", "seek_fail"}}
    \cup {Acc("data", RegOff(ATA_REG_STATUS), 1, TRUE, c, "ok", 0) :
            c \in {ATA_CMD_IDENTIFY, ATA_CMD_INITIALIZE_DEVICE_PARAMS}}

\* byte reads of the data registers
RegReads ==
    {Acc("data", RegOff(r), 1, FALSE, 0, "ok", 0) :
        r \in {ATA_REG_ERR, ATA_REG_NSECT, ATA_REG_STATUS}}

\* misaligned accesses, and accesses of a wrong size
BadAccesses ==
    {Acc("data", off, 1, w, ATA_CMD_READ_SECTORS, "ok", 0) :
        off \in {1, RegOff(ATA_REG_STATUS) + 2}, w \in BOOLEAN}
    \cup {Acc("data", RegOff(r), 4, TRUE, ATA_CMD_READ_SECTORS, "ok", 0) :
            r \in {ATA_REG_NSECT, ATA_REG_STATUS}}
    \cup {Acc("data", RegOff(ATA_REG_STATUS), 4, FALSE, 0, "ok", 0)}

\* accesses of the control block
CtlAccesses ==
    {Acc("ctl", RegOff(ATA_REG_CTL), 1, TRUE, v, "ok", 0) :
        v \in {Pow2(CTL_SRST), Pow2(CTL_HOB)}}
    \cup {Acc("ctl", RegOff(ATA_REG_CTL), 1, FALSE, 0, "ok", 0),
          Acc("ctl", 2, 1, TRUE, Pow2(CTL_SRST), "ok", 0),
          Acc("ctl", RegOff(ATA_REG_CTL), 4, TRUE, Pow2(CTL_SRST), "ok", 0)}

Accesses ==
    DataAccesses \cup RegWrites \cup CmdWrites \cup RegReads \cup BadAccesses \cup CtlAccesses

\* the memory around the struct: zeros, or before it other bytes and the
\* size field of its allocation, and after it the size field of the next
\* allocation and that one's bytes
NoMem == Heap(Run(Reach, 0), Run(Reach, 0))
Mems ==
    {NoMem,
     Heap(Cat(Run(Reach - 8, 90), Cat(Cat(Run(1, 81), Run(1, 4)), Run(6, 0))),
          Cat(Cat(Cat(Run(1, 225), Run(1, 1)), Run(6, 0)), Run(Reach - 8, 165)))}

\* what the handler named in the access does with it
handle(a, fs, acc, mem) ==
    IF acc.h = "data"
    THEN ata_data_mmio_handler(a, fs, acc.offset, acc.size, acc.write, acc.val, acc.io,
                               acc.part, mem)
    ELSE ata_ctl_mmio_handler(a, fs, acc.offset, acc.size, acc.write, acc.val)

\* the access is one of the DATA register, of a command, of NSECT
IsData(acc) == acc.h = "data" /\ acc.offset = RegOff(ATA_REG_DATA)
IsCmd(acc) ==
    acc.h = "data" /\ acc.offset = RegOff(ATA_REG_STATUS) /\ acc.size = 1 /\ acc.write
IsNsectWrite(acc) ==
    acc.h = "data" /\ acc.offset = RegOff(ATA_REG_NSECT) /\ acc.size = 1 /\ acc.write
IsSetup(acc) == acc.write /\ ~IsData(acc) /\ ~IsCmd(acc)

\* the DATA access moves bytes: every write, and a read with bytes left
Moves(a, acc) == IsData(acc) /\ (acc.write \/ curdrv(a).bytes_to_rw # 0)

\* the memcpy of a DATA access leaves the sector buffer
BufferOverrun(a, acc) ==
    /\ Moves(a, acc)
    /\ acc.size > curdrv(a).bytes_to_rw \/ curdrv(a).bytes_to_rw > SECTOR_SIZE

\* the memcpy of the DATA access reaches memory outside the struct, or a
\* write puts in curdrive the number of a drive there is not
LeavesStruct(a, acc) ==
    /\ Moves(a, acc)
    /\ \/ buf_at(a) < 0
       \/ buf_at(a) + acc.size > StructBytes
       \/ /\ acc.write
          /\ buf_at(a) <= CurdriveAt
          /\ CurdriveAt < buf_at(a) + acc.size
          /\ acc.val \notin {0, 1}

\* the access, which came to r, has undefined behaviour: a memcpy outside
\* the buffer, or a pointer that is no open FILE given to the C library
Undefined(a, acc, r) == BufferOverrun(a, acc) \/ r.host = "bad_file"

\* the undefined behaviour of the access can end the process: the C library
\* is given a pointer that is no open FILE, or memory outside the struct is
\* touched
CanCrash(a, acc, r) == LeavesStruct(a, acc) \/ r.host = "bad_file"

\* the write selects a drive or resets one
Reselects(acc) ==
    \/ acc.h = "ctl" /\ acc.write
    \/ acc.h = "data" /\ acc.offset = RegOff(ATA_REG_DEVICE) /\ acc.write

\* what the guest has asked for, after the access that came to r
hist_after(h, r, a, acc) ==
    IF ~r.ret THEN h
    ELSE IF IsCmd(acc)
    THEN [h EXCEPT !.cmd = acc.val, !.req = h.nsect, !.req_writes = h.nsect_writes,
                   !.nsect = 0, !.nsect_writes = 0, !.xfer = 0,
                   !.io_failed = r.host = "failed", !.clean = TRUE, !.cmds = @ + 1]
    ELSE IF IsNsectWrite(acc)
    THEN [h EXCEPT !.nsect = acc.val, !.nsect_writes = @ + 1, !.clean = FALSE]
    ELSE IF Reselects(acc)
    THEN [h EXCEPT !.nsect = 0, !.nsect_writes = 0, !.clean = FALSE]
    ELSE IF acc.write
    THEN [h EXCEPT !.clean = FALSE, !.io_failed = @ \/ r.host = "failed"]
    ELSE IF Moves(a, acc)
    THEN [h EXCEPT !.xfer = @ + acc.size, !.io_failed = @ \/ r.host = "failed"]
    ELSE h

\* what the undefined behaviour of the access, which came to r, can come to
OutcomesOf(acc, r) == IF CanCrash(ata, acc, r) THEN UBOutcomes ELSE {"go_on"}

\* the memory around the struct that can make a difference to the access
MemsOf(acc) ==
    IF ata_at = "ready" /\ ~acc.write /\ LeavesStruct(ata, acc) THEN Mems ELSE {NoMem}

\* the guest makes an MMIO access to the device; mem is the memory around
\* the struct, and undefined behaviour that can end the process does so or
\* not. An access is taken with a failure of the host only if a host call of
\* it fails or is given a bad pointer; a process that dies does so in the
\* copy or in the call with the bad pointer, so that no host call of the
\* access has returned
ata_access(acc, mem) ==
    /\ ata_at = "ready"
    /\ ata_last.n < MaxAccesses
    /\ IsSetup(acc) => ata_last.setup < MaxSetup
    /\ IsCmd(acc) => ata_hist.cmds < MaxCmds
    /\ \E r \in {handle(ata, ata_files, acc, mem)} :
           /\ acc.io # "ok" => r.host \in {"failed", "bad_file"}
           /\ \E ub \in OutcomesOf(acc, r) :
                  /\ ata_last' = [acc |-> acc, ret |-> r.ret,
                                  rd |-> IF ub = "crash" THEN <<>> ELSE r.rd,
                                  host |-> IF ub = "crash" THEN "none" ELSE r.host,
                                  n |-> ata_last.n + 1,
                                  setup |-> ata_last.setup + (IF IsSetup(acc) THEN 1 ELSE 0)]
                  /\ IF ub = "crash"
                     THEN /\ ata_at' = "crashed"
                          /\ UNCHANGED <<ata, ata_files, ata_hist>>
                     ELSE /\ ata_at' = IF Undefined(ata, acc, r) THEN "undefined"
                                       ELSE "ready"
                          /\ ata' = r.ata
                          /\ ata_files' = r.fs
                          /\ ata_hist' = hist_after(ata_hist, r, ata, acc)
    /\ UNCHANGED <<hartvars, poster, regvars, lrvars>>

\* the hart model and the registry at rest beside the device
InitAta ==
    /\ vm = created_vm
    /\ hart_at = "top"
    /\ timer_pending = FALSE
    /\ events = 0
    /\ cleared = {}
    /\ poster = PosterIdle
    /\ RegistryInit
    /\ LrScInit
    /\ AtaIdle

NextAta ==
    \/ \E heap \in Heaps, ub \in UBOutcomes, null_size \in {0, ImageBytes} :
           \E master \in Images(heap.master), slave \in Images(heap.slave) :
               ata_init(master, slave, ub, null_size)
    \/ \E acc \in Accesses : \E mem \in MemsOf(acc) : ata_access(acc, mem)

SpecAta == InitAta /\ [][NextAta]_vars

\* ------------------------------------------------------------ properties

\* the step is the run loop's test of ev_trap and ev_int after
\* riscv32_run_till_event, with the whole trap branch when ev_trap is set
DispatchStep == hart_at = "run" /\ vm.wait_event = 0 /\ hart_at' # "run"

\* the step is the run loop's "vm->csr.ip |= vm->ev_int_mask" with the timer
\* check that follows it
FoldStep == hart_at = "fold" /\ hart_at' = "clear"

\* the modes the privileged architecture of this hart has
RealModes == {PRIVILEGE_USER, PRIVILEGE_SUPERVISOR, PRIVILEGE_MACHINE}

\* the greatest element of a non-empty set of numbers
MaxOf(S) == CHOOSE p \in S : \A q \in S : q <= p

\* the first privilege, from Machine downward and not below the mode m, whose
\* delegation register does not pass bit c on
FirstNotDelegating(deleg, m, c) ==
    MaxOf({p \in m..PRIVILEGE_MACHINE : p = m \/ c \notin deleg[p]})

\* C1: for every cause, delegation setting and mode in {U, S, M}, riscv32_trap
\* delivers to the first privilege, scanning from Machine down to the current
\* mode, whose edeleg does not delegate the cause; the target is between the
\* current mode and Machine, so a trap never lowers the privilege.
C1_TrapTarget ==
    [][ /\ vm.priv_mode \in RealModes =>
             \A c \in AllBits :
                 LET p == trap_priv(vm, PRIVILEGE_MACHINE, c)
                 IN  /\ p = FirstNotDelegating(vm.edeleg, vm.priv_mode, c)
                     /\ vm.priv_mode <= p /\ p <= PRIVILEGE_MACHINE
        /\ \A c \in TrapCauses, t \in TrapTvals :
             (guest_trap(c, t) /\ vm.priv_mode \in RealModes) =>
                 /\ vm'.priv_mode = FirstNotDelegating(vm.edeleg, vm.priv_mode, c)
                 /\ vm.priv_mode <= vm'.priv_mode
                 /\ vm'.priv_mode <= PRIVILEGE_MACHINE ]_vars

\* C1 witness: a trap raised below Supervisor or in it, delegated by Machine,
\* has been delivered to Supervisor
C1_Witness ==
    /\ vm.ev_trap
    /\ vm.priv_mode = PRIVILEGE_SUPERVISOR
    /\ vm.cause[PRIVILEGE_SUPERVISOR] = Bits(TRAP_ENVCALL_UMODE)
    /\ TRAP_ENVCALL_UMODE \in vm.edeleg[PRIVILEGE_MACHINE]

\* C2: after any sequence of traps, interrupt posts, interrupt deliveries and
\* trap-vector jumps, the privilege mode is never Hypervisor.
C2_NeverHypervisor == vm.priv_mode # PRIVILEGE_HYPERVISOR

\* the hart as riscv32_handle_ip(vm, false) sees it in the run loop: after
\* the fold, with ev_int cleared
Folded == [vm EXCEPT !.ev_int = FALSE]

\* the step is the end of the run loop's "else if (vm->ev_int)" branch:
\* "vm->ev_int = false", riscv32_handle_ip and the jump it asks for
InterruptBranchStep == hart_at = "clear" /\ hart_at' = "top"

\* what a delivery to privilege p is to leave in status: the previous
\* privilege in xPP (MPP, SPP; User has no such field), the previous xIE in
\* xPIE, xIE clear.  xIE is bit p, xPIE is bit p + 4.
StatusSaved(v, v2, p) ==
    /\ p = PRIVILEGE_MACHINE => bit_cut(v2.status, MSTATUS_MPP, 2) = v.priv_mode
    /\ p = PRIVILEGE_SUPERVISOR => bit_cut(v2.status, MSTATUS_SPP, 1) = v.priv_mode
    /\ ((p + 4) \in v2.status) <=> (p \in v.status)
    /\ p \notin v2.status

\* C3: riscv32_trap(cause, tval) delivering to p, for every p it can select:
\* epc[p] = PC, cause[p] = cause, tval[p] = tval, the previous privilege in
\* xPP, the previous xIE in xPIE, xIE clear, priv_mode = p, ev_trap set.
C3_TrapSavesState ==
    [][ \A c \in TrapCauses, t \in TrapTvals :
          (guest_trap(c, t) /\ vm.priv_mode \in RealModes) =>
              LET p == vm'.priv_mode
              IN  /\ vm'.epc[p] = vm.pc
                  /\ vm'.cause[p] = Bits(c)
                  /\ vm'.tval[p] = t
                  /\ StatusSaved(vm, vm', p)
                  /\ vm'.ev_trap ]_vars

\* C4, the condition of the claim: the bit is set in ip and ie, and the target
\* privilege, derived from ideleg by the rule of traps, is above the current
\* one, or equal to it with its global enable set
ClaimFires(v, i) ==
    /\ i \in v.ip
    /\ i \in v.ie
    /\ LET p == FirstNotDelegating(v.ideleg, v.priv_mode, i)
       IN  \/ p > v.priv_mode
           \/ p = v.priv_mode /\ p \in v.status

\* C4: outside WFI an interrupt is delivered exactly when some interrupt meets
\* the condition; when none does, handle_ip returns false and the hart is
\* unchanged.
C4_InterruptGate ==
    [][ (InterruptBranchStep /\ vm.priv_mode \in RealModes) =>
          /\ riscv32_handle_ip(Folded, FALSE).ret
                <=> \E i \in 0..IP_TOP : ClaimFires(Folded, i)
          /\ (\A i \in 0..IP_TOP : ~ClaimFires(Folded, i)) => vm' = Folded ]_vars

\* C5: from WFI an interrupt set in ip and ie whose privilege equals the
\* current one is delivered whatever the global enable; with or without WFI
\* an interrupt whose ie bit is clear or whose privilege is below the current
\* one is never delivered.
C5_WfiGate ==
    [][ /\ (guest_wfi /\ vm.priv_mode \in RealModes) =>
              /\ (\E i \in 0..IP_TOP :
                      i \in vm.ip /\ i \in vm.ie /\ i % 4 = vm.priv_mode)
                    => vm' # vm
              /\ \A i \in 0..IP_TOP :
                    (vm' # vm /\ vm'.cause[vm'.priv_mode] = Bits(i) \cup INTERRUPT_MASK)
                        => (i \in vm.ie /\ i % 4 >= vm.priv_mode)
        /\ (InterruptBranchStep /\ vm.priv_mode \in RealModes
                /\ riscv32_handle_ip(Folded, FALSE).ret) =>
              \A i \in 0..IP_TOP :
                    vm'.cause[vm'.priv_mode] = Bits(i) \cup INTERRUPT_MASK
                        => (i \in vm.ie /\ i % 4 >= vm.priv_mode) ]_vars

\* what the delivery of an interrupt leaves, pc0 being the PC at delivery
InterruptSaved(v, v2, pc0) ==
    LET p == v2.priv_mode
    IN  /\ \E i \in 0..IP_TOP :
              /\ i \in v2.ip /\ i \in v.ie
              /\ v2.cause[p] = Bits(i) \cup INTERRUPT_MASK
        /\ v2.epc[p] = pc0
        /\ v2.tval[p] = {}
        /\ StatusSaved(v, v2, p)

\* C6: an interrupt i delivered to p leaves cause[p] = i with the top bit set,
\* epc[p] = PC at delivery, tval[p] = 0, the previous privilege in xPP, the
\* previous xIE in xPIE, xIE clear and priv_mode = p.
C6_InterruptSavesState ==
    [][ /\ (guest_wfi /\ vm' # vm /\ vm.priv_mode \in RealModes) =>
              InterruptSaved(vm, vm', add32(vm.pc, Bits(4)))
        /\ (InterruptBranchStep /\ vm.priv_mode \in RealModes
                /\ riscv32_handle_ip(Folded, FALSE).ret) =>
              InterruptSaved(vm, vm', vm.pc) ]_vars

\* C7: after a trap or an accepted interrupt delivered to p the run loop sets
\* PC to tvec[p] & ~3, plus cause << 2 only when tvec[p] is vectored and the
\* event is an interrupt; for an exception PC is exactly tvec[p] & ~3.
C7_TrapVector ==
    [][ ((DispatchStep /\ vm.ev_trap)
            \/ (InterruptBranchStep /\ riscv32_handle_ip(Folded, FALSE).ret)) =>
          LET p == vm'.priv_mode
              t == vm'.tvec[p]
              interrupt == 31 \in vm'.cause[p]
          IN  vm'.pc = IF 0 \in t /\ interrupt
                       THEN add32(t \ {0, 1}, shl32(vm'.cause[p], 2))
                       ELSE t \ {0, 1} ]_vars

\* the PC the jump to the trap vector of the current privilege gives
VectorOf(v) ==
    LET t == v.tvec[v.priv_mode]
    IN  add32(t \ {0, 1}, IF 0 \in t THEN shl32(v.cause[v.priv_mode], 2) ELSE {})

\* C8: an interrupt taken from WFI leaves PC = WFI address + 4, that PC in
\* epc[p], and ev_trap set; the flag stays, with PC and epc[p], until the run
\* loop dispatches, which clears it and jumps to the vector once, delivering
\* nothing more; a WFI that takes no interrupt leaves PC and ev_trap alone.
C8_WfiAdvancesPc ==
    [][ /\ guest_wfi =>
              LET taken == \E i \in 1..IP_TOP :
                               i \in vm.ip /\ i \in vm.ie /\ i % 4 >= vm.priv_mode
                  p == vm'.priv_mode
              IN  /\ taken =>
                        /\ vm'.pc = add32(vm.pc, Bits(4))
                        /\ vm'.epc[p] = add32(vm.pc, Bits(4))
                        /\ INTERRUPT_MASK \subseteq vm'.cause[p]
                        /\ vm'.ev_trap
                        /\ vm'.wait_event = 0
                  /\ ~taken => (vm'.pc = vm.pc /\ vm'.ev_trap = vm.ev_trap)
        /\ (vm.ev_trap /\ ~DispatchStep) =>
              /\ vm'.ev_trap
              /\ vm'.pc = vm.pc
              /\ vm'.priv_mode = vm.priv_mode
              /\ vm'.epc = vm.epc /\ vm'.cause = vm.cause
              /\ hart_at' = "run" /\ vm'.wait_event = 0
        /\ (vm.ev_trap /\ DispatchStep) =>
              /\ ~vm'.ev_trap
              /\ vm'.pc = VectorOf(vm)
              /\ vm'.priv_mode = vm.priv_mode
              /\ vm'.epc = vm.epc /\ vm'.cause = vm.cause
              /\ vm'.status = vm.status ]_vars

\* C8 witness: an interrupt has been taken from WFI; epc holds the advanced PC
\* and the jump is outstanding
C8_Witness ==
    /\ vm.ev_trap
    /\ INTERRUPT_MASK \subseteq vm.cause[vm.priv_mode]
    /\ vm.epc[vm.priv_mode] = vm.pc
    /\ vm.pc = add32(MEM_BEGIN, Bits(4))

\* the step is an access of a thread other than the hart's own: a caller of
\* riscv32_interrupt or the IRQ thread
ForeignStep == poster' # poster

\* C9: a dispatch that finds ev_trap and ev_int both set clears ev_trap and
\* jumps to the trap vector, leaving ev_int set and ev_int_mask and ip as they
\* were; ev_int then stays set through every step, and ev_int_mask is left
\* alone by every step of the hart and its guest, up to the iteration that
\* takes the interrupt branch, which folds the mask into ip (the timer bit
\* only when the timer is pending) before it clears ev_int.
C9_TrapBeforeInterrupt ==
    [][ /\ (DispatchStep /\ vm.ev_trap /\ vm.ev_int) =>
              /\ ~vm'.ev_trap
              /\ hart_at' = "top"
              /\ vm'.pc = VectorOf(vm)
              /\ vm'.ev_int
              /\ vm'.ev_int_mask = vm.ev_int_mask
              /\ vm'.ip = vm.ip
              /\ vm'.priv_mode = vm.priv_mode
        /\ (vm.ev_int /\ ~InterruptBranchStep) => vm'.ev_int
        /\ ~ForeignStep => vm'.ev_int_mask = vm.ev_int_mask
        /\ (DispatchStep /\ ~vm.ev_trap /\ vm.ev_int) => hart_at' = "fold"
        /\ FoldStep =>
              /\ (vm.ev_int_mask \ {INTERRUPT_MTIMER}) \subseteq vm'.ip
              /\ timer_pending => vm.ev_int_mask \subseteq vm'.ip ]_vars

\* C9 witness: the hart has woken with a trap and a posted interrupt, not yet
\* in ip, both outstanding; the dispatch is its next step
C9_Witness ==
    /\ hart_at = "run"
    /\ vm.wait_event = 0
    /\ vm.ev_trap
    /\ vm.ev_int
    /\ vm.ev_int_mask # {}
    /\ ~(vm.ev_int_mask \subseteq vm.ip)

\* the step delivers the machine timer interrupt: the hart enters Machine
\* mode's handler with cause 0x80000007
TimerDelivered ==
    /\ vm'.cause[vm'.priv_mode] = Bits(INTERRUPT_MTIMER) \cup INTERRUPT_MASK
    /\ vm'.wait_event = 0
    /\ vm'.pc = VectorOf(vm')

\* C10: the fold of the run loop's interrupt branch leaves the MTIMER bit of
\* ip clear when the timer is not pending, whatever ev_int_mask and ip held,
\* and keeps every other bit of both; the bit is still clear when
\* riscv32_handle_ip scans ip, so when the branch delivers cause 0x80000007
\* the timer is pending.
C10_TimerReconciled ==
    [][ /\ FoldStep =>
              /\ ~timer_pending => INTERRUPT_MTIMER \notin vm'.ip
              /\ vm'.ip \ {INTERRUPT_MTIMER}
                    = (vm.ip \cup vm.ev_int_mask) \ {INTERRUPT_MTIMER}
              /\ timer_pending =>
                    (INTERRUPT_MTIMER \in vm'.ip
                        <=> INTERRUPT_MTIMER \in (vm.ip \cup vm.ev_int_mask))
        /\ (hart_at = "clear" /\ ~timer_pending) => INTERRUPT_MTIMER \notin vm.ip
        /\ (InterruptBranchStep /\ riscv32_handle_ip(Folded, FALSE).ret
                /\ TimerDelivered
                /\ handle_ip_scan(Folded, IP_TOP, FALSE) = INTERRUPT_MTIMER)
              => timer_pending ]_vars

\* C10 witness: the IRQ thread posted MTIMER while the timer was not pending
\* and the run loop has folded the mask: the bit is in ev_int_mask, not in ip
C10_Witness ==
    /\ hart_at = "top"
    /\ INTERRUPT_MTIMER \in vm.ev_int_mask
    /\ INTERRUPT_MTIMER \notin vm.ip
    /\ INTERRUPT_MTIMER \in vm.ie
    /\ ~vm.ev_int
    /\ ~timer_pending

\* C12: an ip bit the guest cleared by a CSR write, and that no external
\* source has posted since, is clear in ip; the machine timer bit may stand
\* while the timer itself is pending, the timer being its source.
C12_ClearedStaysClear ==
    (cleared \ (IF timer_pending THEN {INTERRUPT_MTIMER} ELSE {})) \cap vm.ip = {}

\* C14: an access of riscv32_interrupt or of the IRQ thread adds bits to
\* ev_int_mask and removes none, sets ev_int or leaves it, stores 0 to
\* wait_event or leaves it, and leaves every other field of the hart (PC,
\* CSRs, privilege, ev_trap) and the hart thread's place as they were.
C14_PostersFrame ==
    [][ ForeignStep =>
          /\ vm.ev_int_mask \subseteq vm'.ev_int_mask
          /\ vm.ev_int => vm'.ev_int
          /\ vm'.wait_event \in {vm.wait_event, 0}
          /\ vm' = [vm EXCEPT !.ev_int_mask = vm'.ev_int_mask,
                              !.ev_int = vm'.ev_int,
                              !.wait_event = vm'.wait_event]
          /\ hart_at' = hart_at ]_vars

\* the premise of the timer scenario: the timer pending, MTIE set, the hart
\* in Machine mode with MIE set
LivePre ==
    /\ timer_pending
    /\ INTERRUPT_MTIMER \in vm.ie
    /\ vm.priv_mode = PRIVILEGE_MACHINE
    /\ MSTATUS_MIE \in vm.status

\* the hart is in the machine trap handler for the timer interrupt
TimerTrapTaken ==
    /\ vm.priv_mode = PRIVILEGE_MACHINE
    /\ vm.cause[PRIVILEGE_MACHINE] = Bits(INTERRUPT_MTIMER) \cup INTERRUPT_MASK
    /\ MSTATUS_MIE \notin vm.status
    /\ hart_at = "top"

\* C11 as amended: from the premise the hart eventually enters the machine
\* trap handler with cause[M] = 0x80000007 and PC at the handler mtvec
\* selects: the base when mtvec is direct, base + 4 * 7 when it is vectored.
C11_TimerEventuallyTaken ==
    LivePre ~>
        /\ TimerTrapTaken
        /\ LET t == vm.tvec[PRIVILEGE_MACHINE]
           IN  vm.pc = IF 0 \in t
                       THEN add32(t \ {0, 1}, Bits(4 * INTERRUPT_MTIMER))
                       ELSE t \ {0, 1}

\* C11 as stated: from the premise the hart eventually enters the machine
\* trap vector with cause[M] = 0x80000007 and PC = mtvec base.
C11_TimerAtBase ==
    LivePre ~>
        /\ TimerTrapTaken
        /\ vm.pc = vm.tvec[PRIVILEGE_MACHINE] \ {0, 1}

\* C11 witness: the timer interrupt has been taken through a vectored mtvec,
\* after a device posted another interrupt as well
C11_Witness ==
    /\ TimerTrapTaken
    /\ 0 \in vm.tvec[PRIVILEGE_MACHINE]
    /\ vm.pc = add32(vm.tvec[PRIVILEGE_MACHINE] \ {0, 1}, Bits(28))
    /\ vm.ev_int_mask # {INTERRUPT_MTIMER}

\* C13: a bit posted by riscv32_interrupt, whatever the interleaving with the
\* IRQ thread's post on the same hart and with the hart's run loop, eventually
\* appears in the hart's ip.
C13_PostedBitAppears ==
    (poster["dev"].at = "done") ~> (poster["dev"].c \in vm.ip)

\* the harts riscv32_create_vm has registered and riscv32_destroy_vm has not freed
LiveHarts == {r \in Refs : harts[r].state = "reg"}

\* C15: each hartid slot is held by at most one live hart: no two live harts
\* carry the same hartid, and every live hart that is not being destroyed is
\* the one its slot points to (a creation on an occupied slot displaces nothing)
C15_OneHartPerSlot ==
    /\ \A r, q \in LiveHarts : harts[r].hartid = harts[q].hartid => r = q
    /\ \A r \in LiveHarts :
           (main.op = "destroy" /\ main.at # "idle")
           \/ global_vm_list[harts[r].hartid] = r

\* the step with which the caller enters riscv32_create_vm
CreateCallStep ==
    /\ main.at = "idle"
    /\ main'.op = "create"
    /\ main'.calls = main.calls + 1

\* C16: riscv32_create_vm with hartid >= MAX_VMS returns NULL and leaves the
\* registry, the hart count, every hart (its MMIO table included) and the IRQ
\* thread as they were; any creation that fails (the hartid, calloc or
\* devices_init) returns NULL, registers nothing and starts no IRQ thread
C16_FailedCreateNoEffect ==
    [][CreateCallStep =>
          /\ main'.h >= MAX_VMS =>
                 /\ main'.at = "idle"
                 /\ main'.ret = NULL
                 /\ UNCHANGED <<global_vm_list, global_vm_count, harts, irqt, irq_starts>>
          /\ main'.at = "idle" =>
                 /\ main'.ret = NULL
                 /\ UNCHANGED <<global_vm_list, global_vm_count, global_init,
                                irqt, irq_starts>>]_vars

\* a creation with hartid MAX_VMS has returned NULL beside a registered hart
C16_Witness ==
    /\ main.at = "idle"
    /\ main.op = "create"
    /\ main.h >= MAX_VMS
    /\ main.ret = NULL
    /\ global_vm_count > 0
    /\ Registered # {}
    /\ irqt = "sleep"

\* a riscv32_create_vm call has got past calloc and devices_init
CreateSucceeding ==
    \/ global_vm_count > 0
    \/ main.op = "create" /\ main.at \in {"reg_lock", "reg_cs", "reg_unlock", "reg_ret"}

C18_LastDestroyCancels ==
    /\ (main.op = "destroy" /\ main.at \in {"dereg_ret", "idle"} /\ Registered = {})
           => irqt = "cancelled"
    /\ Registered # {} => irqt # "cancelled"

\* the step with which a successful riscv32_create_vm returns the hart
CreateReturnStep == main.at = "reg_ret" /\ main'.at = "idle"

\* what riscv32_create_vm(h) has set up in the hart v it returns, the event
\* flags apart; hs and list are the hart records and the registry then
CreatedHart(hs, list, v, h) ==
    /\ hs[v].priv_mode = PRIVILEGE_MACHINE
    /\ ~hs[v].mmu_virtual
    /\ hs[v].pc = hs[v].mem_begin
    /\ ~hs[v].ev_trap
    /\ h \in hs[v].clint
    /\ list[h] = v
    /\ hs[v].hartid = h

\* C19, as stated: when riscv32_create_vm(h) returns a hart it is in Machine
\* mode with paging off, PC at the memory base, ev_trap, ev_int and
\* ev_int_mask clear, the CLINT region of h in its MMIO table, registered in
\* slot h with csr.hartid = h
C19_CreatedStateClean ==
    [][CreateReturnStep =>
          /\ CreatedHart(harts', global_vm_list', main'.ret, main'.h)
          /\ ~harts'[main'.ret].ev_int
          /\ harts'[main'.ret].ev_int_mask = {}]_vars

\* C19, amended: the same, except that ev_int_mask is clear or holds exactly
\* the machine timer interrupt, which the IRQ thread may post between
\* register_vm's unlock and the return, and ev_int is set only with it
C19_CreatedState ==
    [][CreateReturnStep =>
          /\ CreatedHart(harts', global_vm_list', main'.ret, main'.h)
          /\ harts'[main'.ret].ev_int_mask \subseteq {INTERRUPT_MTIMER}
          /\ harts'[main'.ret].ev_int => harts'[main'.ret].ev_int_mask # {}]_vars

\* a second riscv32_create_vm has just returned its hart, which the IRQ
\* thread has not posted to
C19_Witness ==
    /\ main.at = "idle"
    /\ main.op = "create"
    /\ main.ret # NULL
    /\ global_vm_count = 2
    /\ CreatedHart(harts, global_vm_list, main.ret, main.h)
    /\ ~harts[main.ret].ev_int
    /\ harts[main.ret].ev_int_mask = {}
    /\ parent_vm # main.ret

\* the API caller is between a spin_lock and its spin_unlock
MainHolds ==
    main.at \in {"fan_cs", "fan_unlock", "reg_cs", "reg_unlock", "dereg_cs", "dereg_unlock"}

\* the IRQ thread is between its spin_lock and its spin_unlock
IrqHolds == irqt \in {"locked", "unlock"}

\* a step that writes the registry; the parent lookup and CLINT fan-out of
\* riscv32_create_vm; the IRQ thread's iteration
RegistryWriteStep ==
    global_vm_list' # global_vm_list \/ global_vm_count' # global_vm_count
FanOutStep == main.at = "fan_cs" /\ main'.at # "fan_cs"
IrqIterationStep == irqt = "locked" /\ irqt' = "unlock"

\* C20: the two threads never hold global_lock together, a holder has the
\* flag set, and registration, deregistration, the parent lookup with the
\* CLINT fan-out and the IRQ thread's iteration happen only in a thread that
\* holds the lock while the other does not
C20_RegistryUnderLock ==
    /\ [](~(MainHolds /\ IrqHolds))
    /\ []((MainHolds \/ IrqHolds) => global_lock = 1)
    /\ [][RegistryWriteStep => MainHolds /\ ~IrqHolds /\ global_lock = 1]_vars
    /\ [][FanOutStep => MainHolds /\ ~IrqHolds /\ global_lock = 1]_vars
    /\ [][IrqIterationStep => IrqHolds /\ ~MainHolds /\ global_lock = 1]_vars

\* the API caller waits in spin_lock of register_vm while the IRQ thread is
\* inside its iteration over a registry with a hart in it
C20_Witness ==
    /\ IrqHolds
    /\ main.at = "reg_lock"
    /\ global_lock = 1
    /\ Registered # {}

\* interrupt j is pending, enabled and allowed by riscv32_handle_ip's test
Deliverable(v, j) == j \in v.ip /\ j \in v.ie /\ iallow(v, j, FALSE)

\* C24: when several interrupts are pending, enabled and allowed, the run
\* loop's riscv32_handle_ip delivers one whose source privilege (cause & 3) is
\* the highest among them, Machine before Supervisor before User, and leaves
\* ip as it was
C24_HighestPrivilegeFirst ==
    [][ (InterruptBranchStep /\ riscv32_handle_ip(Folded, FALSE).ret) =>
          /\ vm'.ip = Folded.ip
          /\ \A i \in 0..IP_TOP :
                 vm'.cause[vm'.priv_mode] = Bits(i) \cup INTERRUPT_MASK =>
                     \A j \in 1..IP_TOP : Deliverable(Folded, j) => j % 4 <= i % 4 ]_vars

\* C21: the delivery of a trap by riscv32_trap clears the hart's LR/SC
\* reservation, so that an SC.W that follows without a new LR.W fails
C21_TrapClearsReservation ==
    [][ \A c \in TrapCauses, t \in TrapTvals : guest_trap(c, t) => ~reservation' ]_vars

\* since a delivery to p nothing has lowered the privilege below p or set xIE
\* again at p (xIE of privilege p is bit p of status)
Masked(v, p) == v.priv_mode >= p /\ (v.priv_mode = p => p \notin v.status)

\* the step is an instruction with which the guest writes status: xRET or a
\* CSR write
GuestStatusStep ==
    \/ \E x \in {PRIVILEGE_MACHINE, PRIVILEGE_SUPERVISOR} : guest_xret(x)
    \/ \E cfg \in GuestConfigs : guest_configure(cfg)

\* the step delivers a trap or an interrupt
DeliveryStep ==
    \/ \E c \in TrapCauses, t \in TrapTvals : guest_trap(c, t)
    \/ guest_wfi /\ vm' # vm
    \/ InterruptBranchStep /\ riscv32_handle_ip(Folded, FALSE).ret

\* C28: a delivery to p in {Machine, Supervisor} leaves the hart at p with xIE
\* clear; no step other than a guest write of status undoes that; and while
\* it lasts the run loop's riscv32_handle_ip(vm, false) delivers no interrupt
\* whose privilege (cause & 3) is p
C28_NoSameLevelNesting ==
    [][ \A p \in {PRIVILEGE_MACHINE, PRIVILEGE_SUPERVISOR} :
          /\ (DeliveryStep /\ vm'.priv_mode = p) => Masked(vm', p)
          /\ (Masked(vm, p) /\ ~GuestStatusStep) => Masked(vm', p)
          /\ (Masked(vm, p) /\ InterruptBranchStep
                  /\ riscv32_handle_ip(Folded, FALSE).ret) =>
                 \A i \in 0..IP_TOP :
                     vm'.cause[vm'.priv_mode] = Bits(i) \cup INTERRUPT_MASK
                         => i % 4 # p ]_vars

\* the machine timer interrupt has been delivered to Machine mode, is still
\* pending and enabled, and the run loop is about to call riscv32_handle_ip
C28_Witness ==
    /\ hart_at = "run"
    /\ vm.wait_event = 0
    /\ ~vm.ev_trap
    /\ vm.ev_int
    /\ timer_pending
    /\ vm.priv_mode = PRIVILEGE_MACHINE
    /\ MSTATUS_MIE \notin vm.status
    /\ vm.cause[PRIVILEGE_MACHINE] = Bits(INTERRUPT_MTIMER) \cup INTERRUPT_MASK
    /\ INTERRUPT_MTIMER \in vm.ip
    /\ INTERRUPT_MTIMER \in vm.ie

\* C29: at the top of every run-loop iteration ev_trap is false: the dispatch
\* of an iteration in which a trap was raised or a WFI interrupt marked clears
\* ev_trap and jumps to the trap vector once, and the dispatch of the
\* interrupt branch leaves ev_trap clear whether it delivers or not
C29_TopHasNoTrap ==
    /\ [](hart_at = "top" => ~vm.ev_trap)
    /\ [][ /\ (DispatchStep /\ vm.ev_trap) =>
                 /\ ~vm'.ev_trap
                 /\ vm'.pc = VectorOf(vm)
                 /\ vm'.priv_mode = vm.priv_mode
           /\ InterruptBranchStep =>
                 /\ ~vm'.ev_trap
                 /\ riscv32_handle_ip(Folded, FALSE).ret => vm'.pc = VectorOf(vm') ]_vars

\* the loop is at its top after the dispatch of a WFI that took an interrupt:
\* the handler's PC is loaded, the saved PC is past the WFI, ev_trap is clear
C29_Witness ==
    /\ hart_at = "top"
    /\ events > 0
    /\ ~vm.ev_trap
    /\ INTERRUPT_MASK \subseteq vm.cause[vm.priv_mode]
    /\ vm.epc[vm.priv_mode] = add32(MEM_BEGIN, Bits(4))
    /\ vm.pc = VectorOf(vm)

\* C25: every registered hart's MMIO table holds the CLINT region of every
\* registered hart, its own and all the others
C25_ClintComplete ==
    \A r \in Registered : \A q \in Registered : harts[q].hartid \in harts[r].clint

\* three harts are registered on three hartids, the caller is between calls,
\* and each hart's MMIO table holds the three CLINT regions
C25_Witness ==
    /\ main.at = "idle"
    /\ Cardinality(Registered) = 3
    /\ \A r \in Registered : harts[r].clint = Slots

\* C30: each iteration of the IRQ thread posts the machine timer interrupt to
\* every hart registered at that moment: MTIMER in ev_int_mask, ev_int set,
\* wait_event 0; the vmcnt exit skips none
C30_TickReachesAll ==
    [][ IrqIterationStep =>
          \A r \in Registered :
              /\ INTERRUPT_MTIMER \in harts'[r].ev_int_mask
              /\ harts'[r].ev_int
              /\ harts'[r].wait_event = 0 ]_vars

\* the IRQ thread has just posted to two registered harts, after a destroy
\* (global_vm_count is above the number of registered harts)
C30_Witness ==
    /\ irqt = "unlock"
    /\ Cardinality(Registered) = 2
    /\ global_vm_count > Cardinality(Registered)
    /\ \A r \in Registered : harts[r].ev_int /\ INTERRUPT_MTIMER \in harts[r].ev_int_mask
    /\ \E r \in Refs : harts[r].state = "free"

\* C27: ata_init takes each drive's presence from that drive's own image. It
\* completes for every pair of images with at least one given, and leaves the
\* slave present (fp non-NULL, so that a soft reset reports RDY) exactly when
\* a slave image was given and is not empty.
C27_SlaveFromOwnImage ==
    (ata_at # "uninit" /\ ata_last.n = 0) =>
        /\ ata_at = "ready"
        /\ ata.drive[1].fp # NullPtr <=> (ata_hist.slave.given /\ ata_hist.slave.bytes # 0)
        /\ ata.drive[0].fp # NullPtr <=> (ata_hist.master.given /\ ata_hist.master.bytes # 0)

\* the step is an MMIO access (ata_last' holds it and what it returned)
AccessStep == ata_at = "ready" /\ ata_last'.n = ata_last.n + 1

\* the offset is not a multiple of the register stride
Misaligned(acc) == acc.offset % Pow2(ATA_REG_SHIFT) # 0

\* C22: an MMIO access at an offset off the 4-byte register stride, or of a
\* size other than 1 to a register other than DATA, returns false and leaves
\* the device and the host's files as they were; an aligned access to the
\* DATA register is accepted whatever its size: the handler returns, and it
\* returns true.
C22_AnySizeAccepted ==
    [][AccessStep =>
        LET acc == ata_last'.acc
        IN  /\ (Misaligned(acc) \/ (acc.size # 1 /\ ~IsData(acc))) =>
                    /\ ata_last'.ret = FALSE
                    /\ ata' = ata
                    /\ ata_files' = ata_files
                    /\ ata_at' = "ready"
            /\ IsData(acc) => (ata_at' # "crashed" /\ ata_last'.ret = TRUE)]_vars

\* C23: when an fseek, fread or fwrite that READ SECTORS, WRITE SECTORS, a
\* refill or a flush makes on an open file fails, the handler returns true,
\* the process lives, and the drive selected when the handler returns has
\* ERR in its status and UNC in its error register.
C23_HostErrorIsDeviceError ==
    [][(AccessStep /\ ata_last'.host = "failed") =>
        /\ ata_last'.ret = TRUE
        /\ ata_at' # "crashed"
        /\ ATA_STATUS_ERR \in curdrv(ata').status
        /\ ATA_ERR_UNC \in curdrv(ata').error]_vars

\* a DATA write made with drive 1 selected ran over curdrive and selected
\* drive 0, whose sector it completed, and the flush to the master's file
\* failed
C23_Witness ==
    /\ ata_at = "undefined"
    /\ IsData(ata_last.acc)
    /\ ata_last.acc.write
    /\ ata_last.host = "failed"
    /\ bit_check(ata.drive[1].drive, DEVICE_DRV)
    /\ ata.curdrive = 0
    /\ ata_hist.cmd = ATA_CMD_WRITE_SECTORS
    /\ ATA_STATUS_ERR \in ata.drive[0].status
    /\ ATA_ERR_UNC \in ata.drive[0].error

\* C26: after NSECT was written once with N (0 for 256) and READ SECTORS was
\* issued, and while nothing else is written to the device and no host I/O
\* fails, DRQ is set exactly as long as fewer than N x 512 bytes have been
\* read from DATA.
C26_ExactlyNSectors ==
    (/\ ata_at = "ready"
     /\ ata_hist.cmd = ATA_CMD_READ_SECTORS
     /\ ata_hist.req_writes = 1
     /\ ata_hist.clean
     /\ ~ata_hist.io_failed) =>
        LET N == IF ata_hist.req = 0 THEN 256 ELSE ata_hist.req
        IN  ATA_STATUS_DRQ \in curdrv(ata).status <=> ata_hist.xfer < N * SECTOR_SIZE

\* C31: a riscv32_create_vm call after the global initialisation finds a
\* registered hart to copy mem and mmio from when it looks for one under the
\* lock, and the process never dies of the copy with the global lock held.
C31_ParentAlwaysFound ==
    /\ main.at = "fan_cs" => parent_vm # NULL
    /\ main.at = "crashed" => global_lock = 0

\* C32: riscv32_destroy_vm releases the live physical-memory image only when
\* the hart being destroyed is the last whose mem points into it: at the step
\* that frees the image no hart still registered shares it.
C32_SharedMemoryOutlives ==
    [][(main.at = "dereg_ret" /\ phys_mem = "live" /\ phys_mem' = "freed") =>
        \A r \in Registered \ {main.v} : ~SharesImage(harts[r])]_vars

\* the harts riscv32_create_vm returned for hartid h and riscv32_destroy_vm
\* has not been given
LiveOn(h) == {r \in Refs : harts[r].state = "reg" /\ harts[r].hartid = h}

\* C34: riscv32_get_hart_by_id(h), called between creations and destructions,
\* returns a live hart created on h, and returns NULL only when no hart
\* created on h is live (h >= MAX_VMS, never created, or destroyed).
C34_LookupFindsLiveHart ==
    (main.at = "idle" /\ main.op = "get") =>
        /\ main.ret # NULL => main.ret \in LiveOn(main.h)
        /\ main.ret = NULL => LiveOn(main.h) = {}

\* C33: whatever the guest's accesses, each drive's bytes_to_rw stays within
\* 0..512, so that the address "buf + SECTOR_SIZE - bytes_to_rw" of every
\* copy lies inside the sector buffer.
C33_BytesToRwInRange ==
    ata_at # "crashed" =>
        \A d \in {0, 1} : ata.drive[d].bytes_to_rw \in 0..SECTOR_SIZE

====
